---- MODULE Spec2Model ----
(***************************************************************************)
(* State-machine model of hyperheadset.client.AstroA50Client: the frame    *)
(* codec, one transport attempt (_sendCommandOnce), the retrying query     *)
(* (_query), the typed getters and getSnapshot.  The HID library and the   *)
(* device are the environment: every transport primitive either succeeds   *)
(* (reads return some frame of DeviceFrames, possibly empty) or raises a    *)
(* device I/O error (OSError).                                              *)
(***************************************************************************)
EXTENDS Integers, Sequences, FiniteSets, TLC

\* ---------------------------------------------------------------- bounds

\* Largest explicit retries argument tried for a direct _query call
\* (besides the default).
MaxQueryRetries == 2

\* Largest explicit retries argument tried for getBatteryStatus
\* (besides the default).
MaxBatteryRetries == 2

\* Longest request payload handed to _buildRequestFrame on its own.
MaxPayloadLen == 61

\* Longest response frame handed to _extractPayload on its own.
MaxFrameLen == 5

\* Longest payload handed to a getter's decoding on its own.
MaxDecodeLen == 4

\* Largest --count given to the watch loop; a loop without --count is
\* followed until it has printed that many snapshots.
MaxCount == 2

\* ------------------------------------------------------ program constants

QueryDefaultRetries == 4

BatteryDefaultRetries == 6

VendorId == 39046

ReportLengths == <<64, 65>>

\* enums.Command
CmdGetHeadsetStatus == 84

CmdGetSliderValue == 104

CmdGetNoiseGateMode == 106

CmdGetActiveEqPreset == 108

CmdGetBalance == 114

CmdGetDefaultBalance == 119

CmdGetAlertVolume == 122

CmdGetMicEq == 123

CmdGetBatteryStatus == 124

\* enums.SliderType
SliderMic == 4

SliderSidetone == 5

\* ------------------------------------------------------------ small helpers

\* Optional[T]: None is the empty sequence, a present value x is <<x>>.
None == <<>>

Some(x) == <<x>>

IsNone(o) == Len(o) = 0

TheValue(o) == o[1]

\* Python's a & b on non-negative integers.
RECURSIVE BitAnd(_, _)
BitAnd(a, b) ==
    IF a = 0 \/ b = 0 THEN 0
    ELSE ((a % 2) * (b % 2)) + 2 * BitAnd(a \div 2, b \div 2)

Min(a, b) == IF a <= b THEN a ELSE b

Max(a, b) == IF a >= b THEN a ELSE b

\* Python's seq[lo:hi] for 0 <= lo, on 0-based indices.
Slice(s, lo, hi) ==
    LET h == Min(hi, Len(s))
    IN  IF h <= lo THEN <<>> ELSE [i \in 1..(h - lo) |-> s[lo + i]]

Zeros(n) == [i \in 1..Max(n, 0) |-> 0]

BoolInt(b) == IF b THEN 1 ELSE 0

\* ------------------------------------------------------------- frame codec

\* Mutation of _buildRequestFrame: report length 65 gets no report-id byte.
_buildRequestFrameNoReportId(commandId, payloadBytes, reportLength) ==
    LET hasPayload == ~IsNone(payloadBytes) /\ Len(TheValue(payloadBytes)) > 0
        frameBytes ==
            IF hasPayload
            THEN <<2, BitAnd(commandId, 255), BitAnd(Len(TheValue(payloadBytes)), 255)>>
                 \o [i \in 1..Len(TheValue(payloadBytes)) |->
                        BitAnd(TheValue(payloadBytes)[i], 255)]
            ELSE <<2, BitAnd(commandId, 255), 0>>
    IN  frameBytes \o Zeros(reportLength - Len(frameBytes))

\* client.py 35-48
_buildRequestFrame(commandId, payloadBytes, reportLength) ==
    LET hasPayload == ~IsNone(payloadBytes) /\ Len(TheValue(payloadBytes)) > 0
        frameBytes ==
            IF hasPayload
            THEN <<2, BitAnd(commandId, 255), BitAnd(Len(TheValue(payloadBytes)), 255)>>
                 \o [i \in 1..Len(TheValue(payloadBytes)) |->
                        BitAnd(TheValue(payloadBytes)[i], 255)]
            ELSE <<2, BitAnd(commandId, 255), 0>>
    IN  IF reportLength = 65
        THEN <<0>> \o frameBytes \o Zeros(64 - Len(frameBytes))
        ELSE frameBytes \o Zeros(reportLength - Len(frameBytes))

\* Mutation of _normalizeResponseFrame: the report-id byte is kept.
_normalizeResponseFrameKeepsReportId(responseFrame) == responseFrame

\* client.py 50-53
_normalizeResponseFrame(responseFrame) ==
    IF Len(responseFrame) > 0 /\ responseFrame[1] = 0
       /\ Len(responseFrame) > 1 /\ responseFrame[2] = 2
    THEN Tail(responseFrame)
    ELSE responseFrame

\* Mutation of _extractPayload: the status byte is not checked.
_extractPayloadIgnoresStatus(responseFrame) ==
    IF Len(responseFrame) < 3 THEN None
    ELSE IF responseFrame[1] # 2 THEN None
    ELSE LET payloadLength == Min(responseFrame[3], Max(0, Len(responseFrame) - 3))
         IN  Some(Slice(responseFrame, 3, 3 + payloadLength))

\* client.py 55-67; the result is Optional[bytes].
_extractPayload(responseFrame) ==
    IF Len(responseFrame) < 3 THEN None
    ELSE IF responseFrame[1] # 2 \/ responseFrame[2] # 2 THEN None
    ELSE LET payloadLength == Min(responseFrame[3], Max(0, Len(responseFrame) - 3))
         IN  Some(Slice(responseFrame, 3, 3 + payloadLength))

\* ------------------------------------------------------------- environment

\* What hid.enumerate() may return: lists of device descriptors.
DevOther == [vendor_id |-> 1133, path |-> "pathOther"]

DevA == [vendor_id |-> VendorId, path |-> "pathA"]

DevB == [vendor_id |-> VendorId, path |-> "pathB"]

Enumerations == { <<>>, <<DevOther>>, <<DevOther, DevA>>, <<DevA, DevB>> }

\* The same, with a listing in which another interface of the vendor comes
\* first: successive enumerations may then resolve to different paths.
ChangingEnumerations == Enumerations \cup { <<DevB, DevA>> }

\* What the device may answer to get_feature_report / read.
DeviceFrames ==
    { <<>>,                              \* nothing
      <<2, 1, 1, 85>>,                   \* status byte not ok
      <<2, 2, 0>>,                       \* ok, empty payload
      <<2, 2, 1, 42>>,                   \* ok, one byte: 42 %, not charging
      <<0, 2, 2, 1, 133>>,               \* report-id prefix; charging, 5 %
      <<2, 2, 1, 101>>,                  \* ok, one byte: 101 % (out of range)
      <<2, 2, 4, 104, 5, 50, 40>> }      \* slider payload for sidetone

\* ------------------------------------------------------------------- state

VARIABLES
    lastGoodBatteryStatus, \* Optional[BatteryStatus], the session's cache
    pc,                    \* position of the (single) thread of control
    api,                   \* the public call in progress or last finished
    ret,                   \* outcome of the last finished public call
    snapReq,               \* getSnapshot's arguments
    snapshot,              \* getSnapshot's mapping under construction
    snapStage,             \* the sub-query getSnapshot is waiting for
    sidetoneActive,        \* getSnapshot's local sidetoneActive
    getter,                \* the typed getter last entered, or "none"
    gArgs,                 \* its arguments [saved, sliderId, retries]
    gOutcome,              \* how the last getter call ended
    batIter,               \* cycles started by getBatteryStatus's loop
    q,                     \* _query's locals
    qOutcome,              \* how the last _query ended
    s,                     \* _sendCommandOnce's locals
    attemptOutcome,        \* how the last _sendCommandOnce ended
    openHandles,           \* number of device handles currently open
    \* history variables, written by the model only to state properties
    ioDone,                \* a transport primitive was called in this public call
    enumFound,             \* an enumeration of this public call matched a device
    sendCalls,             \* _sendCommandOnce calls made by the current _query
    firstValidAt,          \* index of the first attempt that gave a valid frame
    firstValidPayload,     \* that frame's payload
    lastRaised,            \* the exception the last raising attempt raised
    mechLog,               \* mechanisms exercised by the current attempt
    swallowed,             \* the current attempt swallowed an OSError
    subCalls,              \* sub-queries getSnapshot has issued
    badCycles,             \* battery cycles that ended with a rejected value
    hist,                  \* trace of the library calls of the current _query,
                           \* kept for the kinds of call named in hist.traced
                           \* (fixed at the start): the path each enumeration
                           \* resolved, open_path calls and the paths they
                           \* were given, sleeps in order
    \* state outside the client
    fnCall,                \* a codec or decode function applied on its own, with its arguments
    fnResult,              \* what that application returned
    cli                    \* the command-line watch loop's locals

snapVars == <<snapReq, snapshot, snapStage, sidetoneActive, subCalls>>

getterVars == <<getter, gArgs, batIter, badCycles, gOutcome>>

queryVars == <<q, qOutcome, sendCalls, firstValidAt, firstValidPayload, lastRaised,
              hist>>

sendVars == <<s, attemptOutcome, openHandles, mechLog, swallowed>>

outerVars == <<fnCall, fnResult, cli>>

clientVars == <<lastGoodBatteryStatus, pc, api, ret, snapVars, getterVars,
                queryVars, sendVars, ioDone, enumFound>>

vars == <<lastGoodBatteryStatus, pc, api, ret, snapVars, getterVars, queryVars,
          sendVars, ioDone, enumFound, outerVars>>

\* Outcomes of calls.
NoOutcome == [kind |-> "none"]

Value(v) == [kind |-> "value", value |-> v]

\* A raised RuntimeError, named by its message; cause is the chained exception.
Error(e, c) == [kind |-> "error", error |-> e, cause |-> c]

\* A device I/O error raised by transport primitive op.
OSError(op) == [type |-> "OSError", op |-> op]

EmptyMap == [key \in {} |-> 0]

NoArgs == [saved |-> FALSE, sliderId |-> 0, retries |-> 0]

NoSnapReq == [battery |-> FALSE, headset |-> FALSE, sidetone |-> FALSE,
              includeTimestamp |-> FALSE]

QueryIdle == [commandId |-> 0, payloadBytes |-> None, retries |-> 0, iter |-> 0,
              devicePath |-> None, lastError |-> None]

\* The kinds of library call a trace can hold: hid.enumerate(), open_path()
\* and time.sleep().
Traceable == {"enumerate", "open_path", "sleep"}

\* Trace of a _query call that has done nothing yet, in a client whose
\* library calls are not traced.
NoHistory == [traced |-> {}, enumerations |-> <<>>, openCalls |-> 0,
              openedPaths |-> {}, sleeps |-> <<>>]

\* The same, with the calls of `traced` traced.
FreshHistory(traced) == [NoHistory EXCEPT !.traced = traced]

SendIdle == [rlIdx |-> 0, handleOpen |-> FALSE, pending |-> NoOutcome]

\* No codec function is being applied on its own.
NoCall == [fn |-> "none"]

\* The command-line loop is not running (cli.py 172: lastSignature is None).
\* `parts` counts the print calls _printSnapshot has made for the snapshot
\* it is printing. The history fields record what was printed: the content
\* of the last printed snapshot, how many were printed, whether one was
\* suppressed, and what became of the snapshot of the last emitOnce call.
NoEmit == [kind |-> "none"]

CliIdle == [pc |-> "off", watch |-> FALSE, changesOnly |-> FALSE, count |-> 0,
            includeBattery |-> FALSE, includeHeadset |-> FALSE,
            includeSidetone |-> FALSE,
            includeTimestamp |-> FALSE, format |-> "human", parts |-> 0,
            emitted |-> 0, lastSignature |-> None,
            lastPrinted |-> None, printedCount |-> 0, anySuppressed |-> FALSE,
            last |-> NoEmit]

\* client.py 15-19: the state of a freshly constructed client.
ClientInit ==
    /\ lastGoodBatteryStatus = None
    /\ pc = "idle"
    /\ api = "none"
    /\ ret = NoOutcome
    /\ snapReq = NoSnapReq
    /\ snapshot = EmptyMap
    /\ snapStage = "none"
    /\ sidetoneActive = 0
    /\ getter = "none"
    /\ gArgs = NoArgs
    /\ gOutcome = NoOutcome
    /\ batIter = 0
    /\ q = QueryIdle
    /\ qOutcome = NoOutcome
    /\ s = SendIdle
    /\ attemptOutcome = NoOutcome
    /\ openHandles = 0
    /\ ioDone = FALSE
    /\ enumFound = FALSE
    /\ sendCalls = 0
    /\ firstValidAt = 0
    /\ firstValidPayload = <<>>
    /\ lastRaised = None
    /\ mechLog = <<>>
    /\ swallowed = FALSE
    /\ subCalls = <<>>
    /\ badCycles = 0

\* A fresh client, used through its public API.
Init ==
    /\ ClientInit
    /\ hist = NoHistory
    /\ fnCall = NoCall
    /\ fnResult = NoOutcome
    /\ cli = CliIdle

\* ------------------------------------------------------------ call plumbing

SimpleGetters == {"getActiveEqPreset", "getBalance", "getDefaultBalance",
                  "getAlertVolume", "getMicEq"}

Getters == {"getBatteryStatus", "getHeadsetStatus", "getSliderValue",
            "getNoiseGateMode"} \cup SimpleGetters

\* The command each getter passes to _query.
GetterCommand(name) ==
    CASE name = "getBatteryStatus" -> CmdGetBatteryStatus
      [] name = "getHeadsetStatus" -> CmdGetHeadsetStatus
      [] name = "getSliderValue" -> CmdGetSliderValue
      [] name = "getActiveEqPreset" -> CmdGetActiveEqPreset
      [] name = "getBalance" -> CmdGetBalance
      [] name = "getDefaultBalance" -> CmdGetDefaultBalance
      [] name = "getAlertVolume" -> CmdGetAlertVolume
      [] name = "getMicEq" -> CmdGetMicEq
      [] name = "getNoiseGateMode" -> CmdGetNoiseGateMode

\* The request payload each getter passes to _query (Optional).
GetterPayload(name, args) ==
    CASE name = "getSliderValue" -> Some(<<args.sliderId>>)
      [] name \in {"getDefaultBalance", "getAlertVolume", "getMicEq"} ->
            Some(<<BoolInt(args.saved)>>)
      [] OTHER -> None

\* The trace after a library call of kind `call`: `entered` when calls of
\* that kind are traced.
Trace(call, entered) == IF call \in hist.traced THEN entered ELSE hist

\* The trace after time.sleep: the settle sleep of a feature report
\* (client.py 80), the inter-command delay (113), the backoff (118).
Slept(sleep) ==
    Trace("sleep", [hist EXCEPT !.sleeps = Append(hist.sleeps, sleep)])

\* No _query is running: its locals and history hold nothing.
ClearQuery ==
    /\ q' = QueryIdle
    /\ qOutcome' = NoOutcome
    /\ sendCalls' = 0
    /\ firstValidAt' = 0
    /\ firstValidPayload' = <<>>
    /\ lastRaised' = None
    /\ hist' = FreshHistory(hist.traced)
    /\ s' = SendIdle
    /\ attemptOutcome' = NoOutcome
    /\ mechLog' = <<>>
    /\ swallowed' = FALSE

\* Entry of _query (client.py 103): fresh locals.
StartQuery(commandId, payloadBytes, retries) ==
    /\ q' = [commandId |-> commandId, payloadBytes |-> payloadBytes,
             retries |-> retries, iter |-> 0, devicePath |-> None,
             lastError |-> None]
    /\ qOutcome' = NoOutcome
    /\ sendCalls' = 0
    /\ firstValidAt' = 0
    /\ firstValidPayload' = <<>>
    /\ lastRaised' = None
    /\ hist' = FreshHistory(hist.traced)
    /\ s' = SendIdle
    /\ attemptOutcome' = NoOutcome
    /\ mechLog' = <<>>
    /\ swallowed' = FALSE
    /\ pc' = "q_find"

\* Entry of a typed getter: getBatteryStatus enters its loop, every other
\* getter calls _query first thing.
StartGetter(name, args) ==
    /\ getter' = name
    /\ gOutcome' = NoOutcome
    /\ gArgs' = args
    /\ batIter' = 0
    /\ badCycles' = 0
    /\ IF name = "getBatteryStatus"
       THEN /\ pc' = "bat_loop"
            /\ ClearQuery
       ELSE StartQuery(GetterCommand(name), GetterPayload(name, args),
                       QueryDefaultRetries)

\* Mutation of GetterReturn: getSnapshot catches the error of a sub-query
\* and returns the mapping built so far.
GetterReturnPartialSnapshot(outcome) ==
    /\ gOutcome' = outcome
    /\ IF api # "getSnapshot"
       THEN /\ pc' = "done"
            /\ ret' = outcome
            /\ snapshot' = EmptyMap
            /\ snapStage' = "none"
            /\ sidetoneActive' = 0
       ELSE /\ pc' = "done"
            /\ ret' = Value(snapshot)
            /\ snapshot' = EmptyMap
            /\ snapStage' = "none"
            /\ sidetoneActive' = 0

\* A getter returns or raises: to the public caller, or into getSnapshot
\* (client.py 217-227), where an error propagates and a value is stored.
GetterReturn(outcome) ==
    /\ gOutcome' = outcome
    /\ IF api # "getSnapshot" \/ outcome.kind = "error"
       THEN /\ pc' = "done"
            /\ ret' = outcome
            /\ snapshot' = EmptyMap
            /\ snapStage' = "none"
            /\ sidetoneActive' = 0
       ELSE /\ ret' = ret
            /\ CASE snapStage = "battery" ->
                      /\ snapshot' = snapshot @@ ("battery" :>
                             [isCharging |-> outcome.value.isCharging,
                              chargePercent |-> outcome.value.chargePercent])
                      /\ sidetoneActive' = sidetoneActive
                      /\ pc' = "snap_headset"
                 [] snapStage = "headset" ->
                      /\ snapshot' = snapshot @@ ("headset" :>
                             [isDocked |-> outcome.value.isDocked,
                              isOn |-> outcome.value.isOn])
                      /\ sidetoneActive' = sidetoneActive
                      /\ pc' = "snap_sidetone"
                 [] snapStage = "sidetoneActive" ->
                      /\ snapshot' = snapshot
                      /\ sidetoneActive' = outcome.value
                      /\ pc' = "snap_sidetoneSaved"
                 [] snapStage = "sidetoneSaved" ->
                      /\ snapshot' = snapshot @@ ("sidetone" :>
                             [activePercent |-> sidetoneActive,
                              savedPercent |-> outcome.value])
                      /\ sidetoneActive' = 0
                      /\ pc' = "snap_return"
            /\ snapStage' = "none"

\* What every public call resets when it starts.
CallBegin(name) ==
    /\ pc = "idle"
    /\ UNCHANGED outerVars
    /\ api' = name
    /\ ret' = NoOutcome
    /\ ioDone' = FALSE
    /\ enumFound' = FALSE
    /\ subCalls' = <<>>
    /\ sidetoneActive' = 0
    /\ snapStage' = "none"

\* --------------------------------------------------------------- public API

\* A caller invokes _query directly (client.py 103).
CallQuery(commandId, payloadBytes, retries) ==
    /\ CallBegin("_query")
    /\ StartQuery(commandId, payloadBytes, retries)
    /\ getter' = "none"
    /\ gOutcome' = NoOutcome
    /\ gArgs' = NoArgs
    /\ batIter' = 0
    /\ badCycles' = 0
    /\ snapReq' = NoSnapReq
    /\ snapshot' = EmptyMap
    /\ UNCHANGED <<lastGoodBatteryStatus, openHandles>>

\* client.py 123
CallGetBatteryStatus(retries) ==
    /\ CallBegin("getBatteryStatus")
    /\ StartGetter("getBatteryStatus", [NoArgs EXCEPT !.retries = retries])
    /\ snapReq' = NoSnapReq
    /\ snapshot' = EmptyMap
    /\ UNCHANGED <<lastGoodBatteryStatus, openHandles>>

\* client.py 147, 155-161, 169-170, 175-176, 181-182, 187-188, 193-194, 199-203
CallGetter(name, saved, sliderType) ==
    /\ name \in Getters \ {"getBatteryStatus"}
    /\ CallBegin(name)
    /\ StartGetter(name,
          [saved |-> saved,
           sliderId |-> IF name = "getSliderValue" THEN BitAnd(sliderType, 255) ELSE 0,
           retries |-> 0])
    /\ snapReq' = NoSnapReq
    /\ snapshot' = EmptyMap
    /\ UNCHANGED <<lastGoodBatteryStatus, openHandles>>

\* client.py 210-214; `now` is what time.time() returns.
CallGetSnapshotAt(now, battery, headset, sidetone, includeTimestamp) ==
    /\ CallBegin("getSnapshot")
    /\ snapReq' = [battery |-> battery, headset |-> headset,
                   sidetone |-> sidetone, includeTimestamp |-> includeTimestamp]
    /\ snapshot' = IF includeTimestamp THEN ("timestamp" :> now) ELSE EmptyMap
    /\ pc' = "snap_battery"
    /\ getter' = "none"
    /\ gOutcome' = NoOutcome
    /\ gArgs' = NoArgs
    /\ batIter' = 0
    /\ badCycles' = 0
    /\ ClearQuery
    /\ UNCHANGED <<lastGoodBatteryStatus, openHandles>>

\* client.py 210-214, called at one instant.
CallGetSnapshot(battery, headset, sidetone, includeTimestamp) ==
    CallGetSnapshotAt("now", battery, headset, sidetone, includeTimestamp)

\* One sub-query of getSnapshot: issued when requested, skipped otherwise.
SnapStep(at, requested, stage, name, args, skipTo) ==
    /\ pc = at
    /\ UNCHANGED outerVars
    /\ IF requested
       THEN /\ snapStage' = stage
            /\ subCalls' = Append(subCalls, stage)
            /\ StartGetter(name, args)
       ELSE /\ pc' = skipTo
            /\ UNCHANGED <<snapStage, subCalls, getterVars, queryVars, s,
                           attemptOutcome, mechLog, swallowed>>
    /\ UNCHANGED <<lastGoodBatteryStatus, api, ret, snapReq, snapshot,
                   sidetoneActive, openHandles, ioDone, enumFound>>

\* client.py 216-217
SnapBattery ==
    SnapStep("snap_battery", snapReq.battery, "battery", "getBatteryStatus",
             [NoArgs EXCEPT !.retries = BatteryDefaultRetries], "snap_headset")

\* client.py 220-221
SnapHeadset ==
    SnapStep("snap_headset", snapReq.headset, "headset", "getHeadsetStatus",
             NoArgs, "snap_sidetone")

\* client.py 224-225
SnapSidetoneActive ==
    SnapStep("snap_sidetone", snapReq.sidetone, "sidetoneActive", "getSliderValue",
             [NoArgs EXCEPT !.sliderId = BitAnd(SliderSidetone, 255)], "snap_return")

\* client.py 226
SnapSidetoneSaved ==
    SnapStep("snap_sidetoneSaved", TRUE, "sidetoneSaved", "getSliderValue",
             [NoArgs EXCEPT !.sliderId = BitAnd(SliderSidetone, 255),
                            !.saved = TRUE], "snap_return")

\* client.py 229
SnapReturn ==
    /\ pc = "snap_return"
    /\ UNCHANGED outerVars
    /\ ret' = Value(snapshot)
    /\ snapshot' = EmptyMap
    /\ pc' = "done"
    /\ UNCHANGED <<lastGoodBatteryStatus, api, snapReq, snapStage, sidetoneActive,
                   subCalls, getterVars, queryVars, sendVars, ioDone, enumFound>>

\* ------------------------------------------------------------------ getters

\* Mutation of DecodeBattery: the charging flag is read from the wrong bit.
DecodeBatteryWrongChargingBit(statusByte) ==
    [isCharging |-> BitAnd(statusByte, 64) # 0,
     chargePercent |-> BitAnd(statusByte, 127)]

\* client.py 134
DecodeBattery(statusByte) ==
    [isCharging |-> BitAnd(statusByte, 128) # 0,
     chargePercent |-> BitAnd(statusByte, 127)]

\* Mutation of BatteryAccepted: the upper bound is not checked.
BatteryAcceptedNoUpperBound(batteryStatus) ==
    0 <= batteryStatus.chargePercent

\* client.py 136
BatteryAccepted(batteryStatus) ==
    0 <= batteryStatus.chargePercent /\ batteryStatus.chargePercent <= 100

\* client.py 132-138: the status one cycle accepts from a payload (Optional;
\* None when the payload is empty or the decoded value is rejected).
BatteryRead(payloadBytes) ==
    IF Len(payloadBytes) >= 1 /\ BatteryAccepted(DecodeBattery(payloadBytes[1]))
    THEN Some(DecodeBattery(payloadBytes[1]))
    ELSE None

\* Mutation of CacheAfterCycle: a rejected value clears the cache.
CacheAfterCycleClearsOnReject(cache, accepted) == accepted

\* client.py 136-137: only an accepted status overwrites the cache.
CacheAfterCycle(cache, accepted) ==
    IF IsNone(accepted) THEN cache ELSE accepted

\* Mutation of BatteryFallback: the cache is not consulted.
BatteryFallbackAlwaysFails(cache) == Error("NoSaneBattery", None)

\* client.py 142-145
BatteryFallback(cache) ==
    IF ~IsNone(cache) THEN Value(TheValue(cache))
    ELSE Error("NoSaneBattery", None)

\* client.py 149-153
DecodeHeadset(payloadBytes) ==
    IF Len(payloadBytes) < 1 THEN Error("UnexpectedPayload", None)
    ELSE Value([isDocked |-> BitAnd(payloadBytes[1], 1) # 0,
                isOn |-> BitAnd(payloadBytes[1], 2) # 0])

\* Mutation of DecodeSlider: `saved` does not move the index.
DecodeSliderIgnoresSaved(payloadBytes, sliderId, saved) ==
    IF Len(payloadBytes) < 4 \/ payloadBytes[1] # CmdGetSliderValue
       \/ payloadBytes[2] # sliderId
    THEN Error("UnexpectedPayload", None)
    ELSE Value(payloadBytes[2 + 1])

\* client.py 163-167
DecodeSlider(payloadBytes, sliderId, saved) ==
    IF Len(payloadBytes) < 4 \/ payloadBytes[1] # CmdGetSliderValue
       \/ payloadBytes[2] # sliderId
    THEN Error("UnexpectedPayload", None)
    ELSE Value(payloadBytes[(2 + BoolInt(saved)) + 1])

\* client.py 171-173, 177-179, 183-185, 189-191, 195-197
DecodeFirstByte(payloadBytes) ==
    IF Len(payloadBytes) = 0 THEN Error("UnexpectedPayload", None)
    ELSE Value(payloadBytes[1])

\* client.py 205-208
DecodeNoiseGate(payloadBytes, saved) ==
    IF Len(payloadBytes) < 3 \/ payloadBytes[1] # CmdGetNoiseGateMode
    THEN Error("UnexpectedPayload", None)
    ELSE Value(payloadBytes[(1 + BoolInt(saved)) + 1])

\* Mutation of BatteryQueryRaised: a failed query falls back to the cache.
BatteryQueryRaisedFallsBack(raised, cache) ==
    IF ~IsNone(cache) THEN Value(TheValue(cache)) ELSE raised

\* client.py 130: the call of _query sits in no try block, so what _query
\* raises is what getBatteryStatus raises, whatever the cache holds.
BatteryQueryRaised(raised, cache) == raised

\* client.py 129-130: the loop starts another query+decode cycle.
BatteryCycle ==
    /\ pc = "bat_loop"
    /\ UNCHANGED outerVars
    /\ batIter < gArgs.retries
    /\ batIter' = batIter + 1
    /\ StartQuery(CmdGetBatteryStatus, None, QueryDefaultRetries)
    /\ UNCHANGED <<lastGoodBatteryStatus, api, ret, snapVars, getter, gArgs,
                   badCycles, gOutcome, openHandles, ioDone, enumFound>>

\* client.py 142-145: the loop is exhausted.
BatteryExhausted ==
    /\ pc = "bat_loop"
    /\ UNCHANGED outerVars
    /\ batIter >= gArgs.retries
    /\ GetterReturn(BatteryFallback(lastGoodBatteryStatus))
    /\ UNCHANGED <<lastGoodBatteryStatus, api, snapReq, subCalls, getter, gArgs,
                   batIter, badCycles, queryVars, sendVars, ioDone, enumFound>>

\* client.py 130-140: _query raised (the error propagates), or returned a
\* payload that is accepted (cached and returned) or rejected (next cycle).
BatteryAfterQuery ==
    /\ pc = "q_done"
    /\ UNCHANGED outerVars
    /\ getter = "getBatteryStatus"
    /\ IF qOutcome.kind = "error"
       THEN /\ GetterReturn(BatteryQueryRaised(qOutcome, lastGoodBatteryStatus))
            /\ UNCHANGED <<lastGoodBatteryStatus, badCycles>>
       ELSE LET accepted == BatteryRead(qOutcome.value)
            IN  /\ lastGoodBatteryStatus' =
                       CacheAfterCycle(lastGoodBatteryStatus, accepted)
                /\ IF ~IsNone(accepted)
                   THEN /\ GetterReturn(Value(TheValue(accepted)))
                        /\ UNCHANGED badCycles
                   ELSE /\ badCycles' = badCycles + 1
                        /\ pc' = "bat_loop"
                        /\ UNCHANGED <<ret, snapshot, snapStage, sidetoneActive,
                                       gOutcome>>
    /\ UNCHANGED <<api, snapReq, subCalls, getter, gArgs, batIter, queryVars, sendVars,
                   ioDone, enumFound>>

\* What a getter other than getBatteryStatus makes of a payload.
DecodeGetter(name, args, payloadBytes) ==
    CASE name = "getHeadsetStatus" -> DecodeHeadset(payloadBytes)
      [] name = "getSliderValue" -> DecodeSlider(payloadBytes, args.sliderId, args.saved)
      [] name = "getNoiseGateMode" -> DecodeNoiseGate(payloadBytes, args.saved)
      [] OTHER -> DecodeFirstByte(payloadBytes)

\* client.py 148-208: _query raised (the error propagates) or returned a
\* payload, which the getter checks and decodes.
GetterAfterQuery ==
    /\ pc = "q_done"
    /\ UNCHANGED outerVars
    /\ getter \in Getters \ {"getBatteryStatus"}
    /\ IF qOutcome.kind = "error"
       THEN GetterReturn(qOutcome)
       ELSE GetterReturn(DecodeGetter(getter, gArgs, qOutcome.value))
    /\ UNCHANGED <<lastGoodBatteryStatus, api, snapReq, subCalls, getter, gArgs,
                   batIter, badCycles, queryVars, sendVars, ioDone, enumFound>>

\* A direct _query call returns or raises to its caller.
QueryReturn ==
    /\ pc = "q_done"
    /\ UNCHANGED outerVars
    /\ api = "_query"
    /\ ret' = qOutcome
    /\ pc' = "done"
    /\ UNCHANGED <<lastGoodBatteryStatus, api, snapVars, getterVars, queryVars,
                   sendVars, ioDone, enumFound>>

\* The frames of a public call are gone: nothing of the call is left but
\* the cache.
CallLeft ==
    /\ pc' = "idle"
    /\ api' = "none"
    /\ ret' = NoOutcome
    /\ snapReq' = NoSnapReq
    /\ snapshot' = EmptyMap
    /\ snapStage' = "none"
    /\ sidetoneActive' = 0
    /\ subCalls' = <<>>
    /\ getter' = "none"
    /\ gOutcome' = NoOutcome
    /\ gArgs' = NoArgs
    /\ batIter' = 0
    /\ badCycles' = 0
    /\ ClearQuery
    /\ ioDone' = FALSE
    /\ enumFound' = FALSE
    /\ UNCHANGED lastGoodBatteryStatus

\* The caller has taken the result of a public call.
ResultTaken ==
    /\ pc = "done"
    /\ CallLeft
    /\ UNCHANGED openHandles

\* The caller has taken the result; the client is ready for the next call.
CallerContinues == ResultTaken /\ UNCHANGED outerVars

\* ------------------------------------------------------------------- _query

\* Mutation of _findDevicePath: the vendor id is not compared.
_findDevicePathAnyVendor(enumerated) ==
    IF Len(enumerated) = 0 THEN None ELSE Some(enumerated[1].path)

\* client.py 29-33; Optional path (None stands for the raised RuntimeError).
_findDevicePath(enumerated) ==
    LET devices == SelectSeq(enumerated, LAMBDA device : device.vendor_id = VendorId)
    IN  IF Len(devices) = 0 THEN None ELSE Some(devices[1].path)

\* History: the enumeration holds an entry for the configured vendor id.
HasVendorDevice(enumerated) ==
    \E i \in 1..Len(enumerated) : enumerated[i].vendor_id = VendorId

\* client.py 104-105
QueryFindDevice(enumerations) ==
    /\ pc = "q_find"
    /\ UNCHANGED outerVars
    /\ \E enumerated \in enumerations :
          LET devicePath == _findDevicePath(enumerated)
          IN  /\ hist' = Trace("enumerate",
                      [hist EXCEPT !.enumerations = Append(hist.enumerations, devicePath)])
              /\ IF IsNone(devicePath)
                 THEN /\ qOutcome' = Error("DeviceNotFound", None)
                      /\ pc' = "q_done"
                      /\ UNCHANGED <<q, enumFound>>
                 ELSE /\ q' = [q EXCEPT !.devicePath = devicePath, !.lastError = None]
                      /\ enumFound' = (enumFound \/ HasVendorDevice(enumerated))
                      /\ pc' = "q_loop"
                      /\ UNCHANGED qOutcome
    /\ UNCHANGED <<lastGoodBatteryStatus, api, ret, snapVars, getterVars, sendCalls,
                   firstValidAt, firstValidPayload, lastRaised, sendVars, ioDone>>

\* Mutation of QueryAttempt: the loop does not count its turns.
QueryAttemptForever ==
    /\ pc = "q_loop"
    /\ UNCHANGED outerVars
    /\ q.iter <= q.retries
    /\ q' = q
    /\ sendCalls' = sendCalls + 1
    /\ s' = SendIdle
    /\ mechLog' = <<>>
    /\ swallowed' = FALSE
    /\ attemptOutcome' = NoOutcome
    /\ pc' = "s_loop"
    /\ UNCHANGED <<lastGoodBatteryStatus, api, ret, snapVars, getterVars, qOutcome,
                   firstValidAt, firstValidPayload, lastRaised, openHandles, ioDone,
                   enumFound, hist>>

\* client.py 107-109: the loop calls _sendCommandOnce once more.
QueryAttempt ==
    /\ pc = "q_loop"
    /\ UNCHANGED outerVars
    /\ q.iter < q.retries
    /\ q' = [q EXCEPT !.iter = q.iter + 1]
    /\ sendCalls' = sendCalls + 1
    /\ s' = SendIdle
    /\ mechLog' = <<>>
    /\ swallowed' = FALSE
    /\ attemptOutcome' = NoOutcome
    /\ pc' = "s_loop"
    /\ UNCHANGED <<lastGoodBatteryStatus, api, ret, snapVars, getterVars, qOutcome,
                   firstValidAt, firstValidPayload, lastRaised, openHandles, ioDone,
                   enumFound, hist>>

\* client.py 120: the loop is exhausted.
QueryExhausted ==
    /\ pc = "q_loop"
    /\ UNCHANGED outerVars
    /\ q.iter >= q.retries
    /\ qOutcome' = Error("Communication", q.lastError)
    /\ pc' = "q_done"
    /\ UNCHANGED <<lastGoodBatteryStatus, api, ret, snapVars, getterVars, q,
                   sendCalls, firstValidAt, firstValidPayload, lastRaised, sendVars,
                   ioDone, enumFound, hist>>

\* client.py 110-112: the payload _query finds in what _sendCommandOnce
\* returned (Optional).
AttemptPayload(outcome) ==
    IF outcome.kind = "frame" /\ Len(outcome.frame) > 0
    THEN _extractPayload(outcome.frame)
    ELSE None

\* Mutation of QuerySucceeds: the return statement is missing, the loop goes on.
QuerySucceedsKeepsLooping ==
    /\ pc = "q_after"
    /\ UNCHANGED outerVars
    /\ ~IsNone(AttemptPayload(attemptOutcome))
    /\ pc' = "q_loop"
    /\ hist' = Slept("commandDelay")
    /\ UNCHANGED <<lastGoodBatteryStatus, api, ret, snapVars, getterVars, q, qOutcome,
                   sendCalls, firstValidAt, firstValidPayload, lastRaised, sendVars,
                   ioDone, enumFound>>

\* Mutation of QuerySucceeds: the payload is returned without the
\* inter-command delay.
QuerySucceedsNoDelay ==
    /\ pc = "q_after"
    /\ UNCHANGED outerVars
    /\ ~IsNone(AttemptPayload(attemptOutcome))
    /\ qOutcome' = Value(TheValue(AttemptPayload(attemptOutcome)))
    /\ pc' = "q_done"
    /\ UNCHANGED <<lastGoodBatteryStatus, api, ret, snapVars, getterVars, q,
                   sendCalls, firstValidAt, firstValidPayload, lastRaised, sendVars,
                   ioDone, enumFound, hist>>

\* client.py 109-114: a present payload ends the query, after the
\* inter-command delay (time.sleep(self.commandDelaySeconds)).
QuerySucceeds ==
    /\ pc = "q_after"
    /\ UNCHANGED outerVars
    /\ ~IsNone(AttemptPayload(attemptOutcome))
    /\ hist' = Slept("commandDelay")
    /\ qOutcome' = Value(TheValue(AttemptPayload(attemptOutcome)))
    /\ pc' = "q_done"
    /\ UNCHANGED <<lastGoodBatteryStatus, api, ret, snapVars, getterVars, q,
                   sendCalls, firstValidAt, firstValidPayload, lastRaised, sendVars,
                   ioDone, enumFound>>

\* Mutation of QueryAttemptFailed: an exception of the attempt ends the loop.
QueryAttemptFailedAborts ==
    /\ pc = "q_after"
    /\ UNCHANGED outerVars
    /\ IsNone(AttemptPayload(attemptOutcome))
    /\ IF attemptOutcome.kind = "raise"
       THEN /\ qOutcome' = Error("Communication", Some(attemptOutcome.exc))
            /\ pc' = "q_done"
       ELSE /\ qOutcome' = qOutcome
            /\ pc' = "q_loop"
    /\ hist' = IF attemptOutcome.kind = "raise" THEN hist
               ELSE Slept("backoff")
    /\ UNCHANGED <<lastGoodBatteryStatus, api, ret, snapVars, getterVars, q,
                   sendCalls, firstValidAt, firstValidPayload, lastRaised, sendVars,
                   ioDone, enumFound>>

\* Mutation of QueryAttemptFailed: the device path is resolved again
\* before the next attempt.
QueryAttemptFailedReResolves ==
    /\ pc = "q_after"
    /\ UNCHANGED outerVars
    /\ IsNone(AttemptPayload(attemptOutcome))
    /\ q' = IF attemptOutcome.kind = "raise"
            THEN [q EXCEPT !.lastError = Some(attemptOutcome.exc)]
            ELSE q
    /\ hist' = Slept("backoff")
    /\ pc' = "q_find"
    /\ UNCHANGED <<lastGoodBatteryStatus, api, ret, snapVars, getterVars, qOutcome,
                   sendCalls, firstValidAt, firstValidPayload, lastRaised, sendVars,
                   ioDone, enumFound>>

\* client.py 109-118: no payload; an exception is recorded; the fixed
\* backoff (time.sleep(0.06)) and the next turn of the loop.
QueryAttemptFailed ==
    /\ pc = "q_after"
    /\ UNCHANGED outerVars
    /\ IsNone(AttemptPayload(attemptOutcome))
    /\ q' = IF attemptOutcome.kind = "raise"
            THEN [q EXCEPT !.lastError = Some(attemptOutcome.exc)]
            ELSE q
    /\ hist' = Slept("backoff")
    /\ pc' = "q_loop"
    /\ UNCHANGED <<lastGoodBatteryStatus, api, ret, snapVars, getterVars, qOutcome,
                   sendCalls, firstValidAt, firstValidPayload, lastRaised, sendVars,
                   ioDone, enumFound>>

\* --------------------------------------------------------- _sendCommandOnce

reportLength == ReportLengths[s.rlIdx]

\* History: mechanism `mechanism` was exercised for the current report length
\* and gave outcome "data" (with the raw response) or "nodata".
LogEntry(mechanism, outcome, raw) ==
    [reportLength |-> reportLength, mechanism |-> mechanism, outcome |-> outcome,
     raw |-> raw]

\* What no transport step changes.
SendFrame ==
    UNCHANGED <<lastGoodBatteryStatus, api, ret, snapVars, getterVars, q, qOutcome,
                sendCalls, enumFound, outerVars>>

\* client.py 70-71: the next report length, with a fresh (unopened) handle.
SendNextLength ==
    /\ pc = "s_loop"
    /\ s.rlIdx < Len(ReportLengths)
    /\ s' = [rlIdx |-> s.rlIdx + 1, handleOpen |-> FALSE, pending |-> NoOutcome]
    /\ pc' = "s_open"
    /\ SendFrame
    /\ UNCHANGED hist
    /\ UNCHANGED <<attemptOutcome, openHandles, mechLog, swallowed, ioDone,
                   firstValidAt, firstValidPayload, lastRaised>>

\* client.py 101: every report length was tried.
SendReturnNone ==
    /\ pc = "s_loop"
    /\ s.rlIdx >= Len(ReportLengths)
    /\ attemptOutcome' = [kind |-> "none"]
    /\ pc' = "q_after"
    /\ SendFrame
    /\ UNCHANGED hist
    /\ UNCHANGED <<s, openHandles, mechLog, swallowed, ioDone, firstValidAt,
                   firstValidPayload, lastRaised>>

\* Where an OSError of open_path or set_nonblocking leads (client.py 72-76,
\* 95): these calls sit in the outer try block, which has a finally clause
\* and no except clause, so the exception propagates after the handle is
\* closed.
SetupErrorPending(op) == [kind |-> "raise", exc |-> OSError(op)]

\* client.py 73
OpenPath ==
    /\ pc = "s_open"
    /\ ~IsNone(q.devicePath)
    /\ ioDone' = TRUE
    /\ hist' = Trace("open_path",
          [hist EXCEPT !.openCalls = hist.openCalls + 1,
                       !.openedPaths = hist.openedPaths \cup {TheValue(q.devicePath)}])
    /\ \E ok \in BOOLEAN :
          IF ok
          THEN /\ s' = [s EXCEPT !.handleOpen = TRUE]
               /\ openHandles' = openHandles + 1
               /\ pc' = "s_nonblock"
          ELSE /\ s' = [s EXCEPT !.pending = SetupErrorPending("open_path")]
               /\ openHandles' = openHandles
               /\ pc' = "s_close"
    /\ SendFrame
    /\ UNCHANGED <<attemptOutcome, mechLog, swallowed, firstValidAt,
                   firstValidPayload, lastRaised>>

\* client.py 74-76
SetNonblocking ==
    /\ pc = "s_nonblock"
    /\ ioDone' = TRUE
    /\ \E ok \in BOOLEAN :
          IF ok
          THEN /\ s' = s
               /\ pc' = "s_sendfeat"
          ELSE /\ s' = [s EXCEPT !.pending = SetupErrorPending("set_nonblocking")]
               /\ pc' = "s_close"
    /\ SendFrame
    /\ UNCHANGED hist
    /\ UNCHANGED <<attemptOutcome, openHandles, mechLog, swallowed, firstValidAt,
                   firstValidPayload, lastRaised>>

\* Mutation of AfterNoData: the interrupt mechanism is skipped.
AfterNoDataSkipsInterrupt(mechanism) ==
    [pc |-> "s_close", pending |-> [kind |-> "continue"]]

\* Where control goes when the feature-report mechanism gave nothing
\* (client.py 82-87) and when the interrupt mechanism gave nothing
\* (client.py 90-95).
AfterNoData(mechanism) ==
    IF mechanism = "feature"
    THEN [pc |-> "s_write", pending |-> NoOutcome]
    ELSE [pc |-> "s_close", pending |-> [kind |-> "continue"]]

\* Mutation of NoData: the OSError of a mechanism is not caught.
NoDataErrorEscapes(mechanism, wasError) ==
    /\ mechLog' = Append(mechLog, LogEntry(mechanism, "nodata", <<>>))
    /\ swallowed' = swallowed
    /\ s' = [s EXCEPT !.pending =
                IF wasError THEN [kind |-> "raise", exc |-> OSError(mechanism)]
                ELSE AfterNoData(mechanism).pending]
    /\ pc' = IF wasError THEN "s_close" ELSE AfterNoData(mechanism).pc

\* A mechanism ended without data: empty response, or an OSError, swallowed
\* by `except OSError: pass` (client.py 84-85, 92-93).
NoData(mechanism, wasError) ==
    /\ mechLog' = Append(mechLog, LogEntry(mechanism, "nodata", <<>>))
    /\ swallowed' = (swallowed \/ wasError)
    /\ s' = [s EXCEPT !.pending = AfterNoData(mechanism).pending]
    /\ pc' = AfterNoData(mechanism).pc

\* What a mechanism does with a non-empty response (client.py 82-83, 90-91):
\* the frame that _sendCommandOnce will return.
ResponseTaken(response) == _normalizeResponseFrame(response)

\* Stands, among the answers of a read, for the read raising OSError.
RaisesOSError == <<-1>>

\* A mechanism's read (client.py 81-85, 89-93): a non-empty response is
\* normalized and returned through the finally clause.
ReadStep(mechanism) ==
    \E answer \in DeviceFrames \cup {RaisesOSError} :
        IF answer = RaisesOSError THEN NoData(mechanism, TRUE)
        ELSE IF Len(answer) > 0
        THEN /\ mechLog' = Append(mechLog, LogEntry(mechanism, "data", answer))
             /\ swallowed' = swallowed
             /\ s' = [s EXCEPT !.pending = [kind |-> "return",
                                            frame |-> ResponseTaken(answer)]]
             /\ pc' = "s_close"
        ELSE NoData(mechanism, FALSE)

\* client.py 79-80, 84-85: a report that was sent is followed by the settle
\* sleep (time.sleep(0.03)); a send that raised is not.
SendFeatureReport ==
    /\ pc = "s_sendfeat"
    /\ ioDone' = TRUE
    /\ \E ok \in BOOLEAN :
          IF ok
          THEN /\ pc' = "s_getfeat"
               /\ hist' = Slept("settle")
               /\ UNCHANGED <<s, mechLog, swallowed>>
          ELSE /\ NoData("feature", TRUE)
               /\ UNCHANGED hist
    /\ SendFrame
    /\ UNCHANGED <<attemptOutcome, openHandles, firstValidAt, firstValidPayload,
                   lastRaised>>

\* client.py 81-85
GetFeatureReport ==
    /\ pc = "s_getfeat"
    /\ ioDone' = TRUE
    /\ ReadStep("feature")
    /\ SendFrame
    /\ UNCHANGED hist
    /\ UNCHANGED <<attemptOutcome, openHandles, firstValidAt, firstValidPayload,
                   lastRaised>>

\* client.py 88, 92-93
Write ==
    /\ pc = "s_write"
    /\ ioDone' = TRUE
    /\ \E ok \in BOOLEAN :
          IF ok
          THEN /\ pc' = "s_read"
               /\ UNCHANGED <<s, mechLog, swallowed>>
          ELSE NoData("interrupt", TRUE)
    /\ SendFrame
    /\ UNCHANGED hist
    /\ UNCHANGED <<attemptOutcome, openHandles, firstValidAt, firstValidPayload,
                   lastRaised>>

\* client.py 89-93
Read ==
    /\ pc = "s_read"
    /\ ioDone' = TRUE
    /\ ReadStep("interrupt")
    /\ SendFrame
    /\ UNCHANGED hist
    /\ UNCHANGED <<attemptOutcome, openHandles, firstValidAt, firstValidPayload,
                   lastRaised>>

\* Mutation of HandleReleased: close() is not called.
HandleReleasedNever(handleOpen) == FALSE

\* client.py 95-99: whether the finally clause releases the handle.
HandleReleased(handleOpen) == handleOpen

\* client.py 95-101: the finally clause closes the handle (an exception of
\* close() is swallowed; hidapi has released the handle by then), then the
\* pending return, exception or next iteration goes on.
Close ==
    /\ pc = "s_close"
    /\ ioDone' = TRUE
    /\ \E closeRaised \in BOOLEAN :
          /\ openHandles' = IF HandleReleased(s.handleOpen)
                            THEN openHandles - 1 ELSE openHandles
          /\ s' = [s EXCEPT !.handleOpen = s.handleOpen /\ ~HandleReleased(s.handleOpen)]
    /\ CASE s.pending.kind = "return" ->
              /\ attemptOutcome' = [kind |-> "frame", frame |-> s.pending.frame]
              /\ IF firstValidAt = 0 /\ ~IsNone(_extractPayload(s.pending.frame))
                 THEN /\ firstValidAt' = sendCalls
                      /\ firstValidPayload' = TheValue(_extractPayload(s.pending.frame))
                 ELSE UNCHANGED <<firstValidAt, firstValidPayload>>
              /\ lastRaised' = lastRaised
              /\ pc' = "q_after"
         [] s.pending.kind = "raise" ->
              /\ attemptOutcome' = [kind |-> "raise", exc |-> s.pending.exc]
              /\ lastRaised' = Some(s.pending.exc)
              /\ UNCHANGED <<firstValidAt, firstValidPayload>>
              /\ pc' = "q_after"
         [] s.pending.kind = "continue" ->
              /\ attemptOutcome' = attemptOutcome
              /\ UNCHANGED <<firstValidAt, firstValidPayload, lastRaised>>
              /\ pc' = "s_loop"
    /\ SendFrame
    /\ UNCHANGED hist
    /\ UNCHANGED <<mechLog, swallowed>>

\* ------------------------------------------------------------ specification

QueryRetriesInputs == (0..MaxQueryRetries) \cup {QueryDefaultRetries}

BatteryRetriesInputs == (0..MaxBatteryRetries) \cup {BatteryDefaultRetries}

SliderInputs == {SliderSidetone, SliderMic}

\* The calls of the getters other than getBatteryStatus, each with the
\* arguments it takes.
GetterCalls ==
    [name : {"getHeadsetStatus", "getActiveEqPreset", "getBalance"},
     saved : {FALSE}, sliderType : {0}]
    \cup [name : {"getDefaultBalance", "getAlertVolume", "getMicEq",
                  "getNoiseGateMode"},
          saved : BOOLEAN, sliderType : {0}]
    \cup [name : {"getSliderValue"}, saved : BOOLEAN, sliderType : SliderInputs]

Next ==
    \/ \E retries \in QueryRetriesInputs :
          CallQuery(CmdGetBatteryStatus, None, retries)
    \/ \E retries \in BatteryRetriesInputs : CallGetBatteryStatus(retries)
    \/ \E call \in GetterCalls : CallGetter(call.name, call.saved, call.sliderType)
    \/ \E battery, headset, sidetone, includeTimestamp \in BOOLEAN :
          CallGetSnapshot(battery, headset, sidetone, includeTimestamp)
    \/ SnapBattery
    \/ SnapHeadset
    \/ SnapSidetoneActive
    \/ SnapSidetoneSaved
    \/ SnapReturn
    \/ BatteryCycle
    \/ BatteryExhausted
    \/ BatteryAfterQuery
    \/ GetterAfterQuery
    \/ QueryReturn
    \/ CallerContinues
    \/ QueryFindDevice(Enumerations)
    \/ QueryAttempt
    \/ QueryExhausted
    \/ QuerySucceeds
    \/ QueryAttemptFailed
    \/ SendNextLength
    \/ SendReturnNone
    \/ OpenPath
    \/ SetNonblocking
    \/ SendFeatureReport
    \/ GetFeatureReport
    \/ Write
    \/ Read
    \/ Close

Spec == Init /\ [][Next]_vars

\* ------------------------------------------------- the query engine, audited

\* A client whose enumerations, open_path calls and sleeps are all traced.
QueryInit ==
    /\ ClientInit
    /\ hist = FreshHistory(Traceable)
    /\ fnCall = NoCall
    /\ fnResult = NoOutcome
    /\ cli = CliIdle

\* A client whose open_path calls are traced.
WorkInit ==
    /\ ClientInit
    /\ hist = FreshHistory({"open_path"})
    /\ fnCall = NoCall
    /\ fnResult = NoOutcome
    /\ cli = CliIdle

\* The steps of one transport attempt (_sendCommandOnce, client.py 69-101).
SendNext ==
    \/ SendNextLength
    \/ SendReturnNone
    \/ OpenPath
    \/ SetNonblocking
    \/ SendFeatureReport
    \/ GetFeatureReport
    \/ Write
    \/ Read
    \/ Close

\* The client used through _query only, with a device whose listing may
\* change between enumerations.
QueryNext ==
    \/ \E retries \in QueryRetriesInputs :
          CallQuery(CmdGetBatteryStatus, None, retries)
    \/ QueryReturn
    \/ CallerContinues
    \/ QueryFindDevice(ChangingEnumerations)
    \/ QueryAttempt
    \/ QueryExhausted
    \/ QuerySucceeds
    \/ QueryAttemptFailed
    \/ SendNext

QuerySpec == QueryInit /\ [][QueryNext]_vars

\* The client used through _query and through getBatteryStatus with its
\* default retries.
WorkNext ==
    \/ \E retries \in QueryRetriesInputs :
          CallQuery(CmdGetBatteryStatus, None, retries)
    \/ CallGetBatteryStatus(BatteryDefaultRetries)
    \/ BatteryCycle
    \/ BatteryExhausted
    \/ BatteryAfterQuery
    \/ QueryReturn
    \/ CallerContinues
    \/ QueryFindDevice(Enumerations)
    \/ QueryAttempt
    \/ QueryExhausted
    \/ QuerySucceeds
    \/ QueryAttemptFailed
    \/ SendNext

\* Every transport primitive returns or raises, and the caller takes every
\* result: no step that can be taken is put off forever.
WorkSpec == WorkInit /\ [][WorkNext]_vars /\ WF_vars(WorkNext)

\* ------------------------------------------------------ the CLI watch loop

\* What time.time() may return.
Clock == {"now", "later"}

\* The keys of a snapshot, and of its nested mappings, in sorted order.
SortedKeys == <<"battery", "headset", "sidetone", "timestamp">>

\* json.dumps(value, sort_keys=True) of a snapshot's entry: the nested
\* mapping as its members in key order, the timestamp as itself.
JsonDumpsEntry(key, value) ==
    CASE key = "battery" -> <<"{", <<"chargePercent", value.chargePercent>>,
                              <<"isCharging", value.isCharging>>, "}">>
      [] key = "headset" -> <<"{", <<"isDocked", value.isDocked>>,
                              <<"isOn", value.isOn>>, "}">>
      [] key = "sidetone" -> <<"{", <<"activePercent", value.activePercent>>,
                               <<"savedPercent", value.savedPercent>>, "}">>
      [] OTHER -> <<value>>

\* json.dumps(mapping, sort_keys=True, separators=(",", ":")) (cli.py 17):
\* the members present, in key order, each as <<key, dumped value>>.
JsonDumps(mapping) ==
    LET present == SelectSeq(SortedKeys, LAMBDA k : k \in DOMAIN mapping)
    IN  [i \in 1..Len(present) |->
            <<present[i], JsonDumpsEntry(present[i], mapping[present[i]])>>]

\* Mutation of _stableSignatureForChangeDetection: the timestamp is kept.
_stableSignatureKeepsTimestamp(snap) == JsonDumps(snap)

\* cli.py 14-17
_stableSignatureForChangeDetection(snap) ==
    LET comparable == [k \in DOMAIN snap \ {"timestamp"} |-> snap[k]]
    IN  JsonDumps(comparable)

\* A snapshot's content, the timestamp left out (history).
Content(snap) == [k \in DOMAIN snap \ {"timestamp"} |-> snap[k]]

\* How main() ends when it rejects its arguments (raise SystemExit(message)).
SystemExit(message, detail) ==
    [kind |-> "SystemExit", message |-> message, detail |-> detail]

\* cli.py 133
allowedFields == {"battery", "headset", "sidetone"}

\* cli.py 133-151: the fields of the snapshot. `fields` is the set of names
\* --fields gives (Optional: None without --fields or with a blank one); the
\* other three are the flags --battery, --headset, --sidetone. A name that
\* is no field ends main() with SystemExit.
FieldSelection(fields, battery, headset, sidetone) ==
    IF ~IsNone(fields)
    THEN LET requested == TheValue(fields)
             unknown == requested \ allowedFields
         IN  IF unknown # {}
             THEN SystemExit("Unknown fields", unknown)
             ELSE Value([includeBattery |-> "battery" \in requested,
                         includeHeadset |-> "headset" \in requested,
                         includeSidetone |-> "sidetone" \in requested])
    ELSE IF ~(battery \/ headset \/ sidetone)
    THEN Value([includeBattery |-> TRUE, includeHeadset |-> TRUE,
                includeSidetone |-> FALSE])
    ELSE Value([includeBattery |-> battery, includeHeadset |-> headset,
                includeSidetone |-> sidetone])

\* The command lines main() is started with, as the arguments that reach
\* emitOnce and the watch loop: --headset alone and with every combination
\* of the loop's options; no field option (battery and headset by default)
\* and --sidetone, printed once; --fields (which overrides the flags) in a
\* loop that prints changes only; command lines main() rejects (an
\* --interval of 0 seconds, a name that is no field).
CommandLines ==
    [fields : {None}, battery : {FALSE}, headset : {TRUE}, sidetone : {FALSE},
     json : {TRUE}, csv : {FALSE},
     interval : {2}, noTimestamp : BOOLEAN, watch : BOOLEAN, changesOnly : BOOLEAN,
     count : 0..MaxCount]
    \cup [fields : {None}, battery : {FALSE}, headset : {FALSE}, sidetone : BOOLEAN,
          json : {FALSE}, csv : {FALSE},
          interval : {2}, noTimestamp : {FALSE}, watch : BOOLEAN,
          changesOnly : {TRUE}, count : {1}]
    \cup [fields : {Some({}), Some({"sidetone"}), Some({"battery"})},
          battery : {FALSE}, headset : {TRUE}, sidetone : {FALSE},
          json : BOOLEAN, csv : {TRUE},
          interval : {2}, noTimestamp : {TRUE}, watch : {TRUE},
          changesOnly : {TRUE}, count : {MaxCount}]
    \cup [fields : {None, Some({"volume"}), Some({"battery", "volume"})},
          battery : {FALSE}, headset : {FALSE}, sidetone : {FALSE},
          json : {FALSE}, csv : {FALSE},
          interval : {0, 2}, noTimestamp : {FALSE}, watch : {TRUE},
          changesOnly : {TRUE}, count : {1}]

\* cli.py 153-154: asCsv and asJson (--csv wins over --json); neither gives
\* the human-readable output.
OutputFormat(json, csv) ==
    IF csv THEN "csv" ELSE IF json THEN "json" ELSE "human"

\* cli.py 128-172: main() checks --interval, selects the fields and the
\* output format and sets lastSignature; a rejected command line ends it with SystemExit before
\* the client is constructed.
ArgsParsed(args) ==
    LET selection == FieldSelection(args.fields, args.battery, args.headset,
                                    args.sidetone)
        rejected == IF args.interval <= 0
                    THEN SystemExit("--interval must be > 0", {})
                    ELSE selection
        parsed == [pc |-> "start", watch |-> args.watch,
                   changesOnly |-> args.changesOnly, count |-> args.count,
                   includeBattery |-> FALSE, includeHeadset |-> FALSE,
                   includeSidetone |-> FALSE,
                   includeTimestamp |-> ~args.noTimestamp,
                   format |-> OutputFormat(args.json, args.csv), parts |-> 0,
                   emitted |-> 0, lastSignature |-> None, lastPrinted |-> None,
                   printedCount |-> 0, anySuppressed |-> FALSE, last |-> NoEmit]
    IN  IF rejected.kind = "SystemExit"
        THEN [parsed EXCEPT !.pc = "SystemExit", !.last = rejected]
        ELSE [parsed EXCEPT !.includeBattery = selection.value.includeBattery,
                            !.includeHeadset = selection.value.includeHeadset,
                            !.includeSidetone = selection.value.includeSidetone]

\* main() (cli.py 90) has parsed its command line.
WatchInit ==
    /\ ClientInit
    /\ hist = NoHistory
    /\ fnCall = NoCall
    /\ fnResult = NoOutcome
    /\ \E args \in CommandLines : cli = ArgsParsed(args)

\* cli.py 174-194 and 204: the client is constructed and entered, and main()
\* comes to its first call of emitOnce: inside the try block of the watch
\* loop, or at line 204.
FirstEmitOnce ==
    /\ cli.pc = "start"
    /\ cli' = [cli EXCEPT !.pc = "emitOnce"]
    /\ UNCHANGED <<clientVars, fnCall, fnResult>>

\* cli.py 179: emitOnce calls client.getSnapshot.
EmitOnceCall ==
    /\ cli.pc = "emitOnce"
    /\ \E now \in Clock :
          CallGetSnapshotAt(now, cli.includeBattery, cli.includeHeadset,
                            cli.includeSidetone, cli.includeTimestamp)

\* cli.py 179: getSnapshot has returned or raised; emitOnce holds the
\* snapshot, or the exception is on its way out of main() (only
\* KeyboardInterrupt is caught there).
EmitOnceReturn ==
    /\ cli.pc = "emitOnce"
    /\ ResultTaken
    /\ cli' = IF ret.kind = "error"
              THEN [cli EXCEPT !.pc = "raising", !.last = NoEmit]
              ELSE [cli EXCEPT !.pc = "snapshot",
                               !.last = [kind |-> "taken", snapshot |-> ret.value,
                                         before |-> cli.lastPrinted]]
    /\ UNCHANGED <<fnCall, fnResult>>

\* What emitOnce decides about the snapshot it holds (cli.py 181-185): under
\* --watch --changes-only a snapshot with the signature of the last printed
\* one is dropped (return False); for any other the signature is remembered
\* and _printSnapshot is called next.
EmitOnceDecision(c) ==
    IF c.watch /\ c.changesOnly
    THEN LET sig == _stableSignatureForChangeDetection(c.last.snapshot)
         IN  IF Some(sig) = c.lastSignature
             THEN [c EXCEPT !.pc = "returned",
                            !.anySuppressed = TRUE,
                            !.last.kind = "suppressed"]
             ELSE [c EXCEPT !.pc = "printing",
                            !.parts = 0,
                            !.lastSignature = Some(sig)]
    ELSE [c EXCEPT !.pc = "printing", !.parts = 0]

\* cli.py 181-185
EmitOnceDecides ==
    /\ cli.pc = "snapshot"
    /\ cli' = EmitOnceDecision(cli)
    /\ UNCHANGED <<clientVars, fnCall, fnResult>>

\* The print calls _printSnapshot makes for a snapshot (cli.py 20-67): one
\* row or one JSON text, or one line for each field of the snapshot.
PrintCalls(format, snap) ==
    IF format \in {"csv", "json"} THEN 1
    ELSE Cardinality(DOMAIN snap \cap {"battery", "headset", "sidetone"})

\* cli.py 187: _printSnapshot makes its next print call.
PrintPart ==
    /\ cli.pc = "printing"
    /\ cli.parts < PrintCalls(cli.format, cli.last.snapshot)
    /\ cli' = [cli EXCEPT !.parts = cli.parts + 1]
    /\ UNCHANGED <<clientVars, fnCall, fnResult>>

\* cli.py 187-188: _printSnapshot has printed the snapshot; emitOnce
\* returns True.
EmitOncePrinted ==
    /\ cli.pc = "printing"
    /\ cli.parts = PrintCalls(cli.format, cli.last.snapshot)
    /\ cli' = [cli EXCEPT !.pc = "returned",
                          !.parts = 0,
                          !.lastPrinted = Some(Content(cli.last.snapshot)),
                          !.printedCount = cli.printedCount + 1,
                          !.last.kind = "printed"]
    /\ UNCHANGED <<clientVars, fnCall, fnResult>>

\* cli.py 194-195, 198 and 204-205: the caller of emitOnce. The watch loop
\* counts a printed snapshot (emitted += 1) and goes to sleep after one that
\* was not printed; without --watch main() comes to `return 0`.
AfterEmitOnce ==
    /\ cli.pc = "returned"
    /\ cli' = IF ~cli.watch THEN [cli EXCEPT !.pc = "returning"]
              ELSE IF cli.last.kind = "printed"
              THEN [cli EXCEPT !.emitted = cli.emitted + 1, !.pc = "counted"]
              ELSE [cli EXCEPT !.pc = "sleep"]
    /\ UNCHANGED <<clientVars, fnCall, fnResult>>

\* cli.py 196-198: the loop comes to `return 0` when --count is reached and
\* goes to sleep otherwise.
CountChecked ==
    /\ cli.pc = "counted"
    /\ cli' = IF cli.count # 0 /\ cli.emitted >= cli.count
              THEN [cli EXCEPT !.pc = "returning"]
              ELSE [cli EXCEPT !.pc = "sleep"]
    /\ UNCHANGED <<clientVars, fnCall, fnResult>>

\* cli.py 198, 193-194: the sleep ends and the loop calls emitOnce again.
WatchSleepEnds ==
    /\ cli.pc = "sleep"
    /\ cli.count # 0 \/ cli.emitted < MaxCount
    /\ cli' = [cli EXCEPT !.pc = "emitOnce", !.last = NoEmit]
    /\ UNCHANGED <<clientVars, fnCall, fnResult>>

\* The positions of emitOnce at which it holds a snapshot that it has not
\* finished printing (cli.py 181-187).
HoldsSnapshot == {"snapshot", "printing"}

\* The positions of main() inside the try block of the watch loop
\* (cli.py 192-198): a KeyboardInterrupt raised there is caught.
InTryBlock(c) ==
    c.watch /\ c.pc \in {"emitOnce", "returned", "counted", "sleep"} \cup HoldsSnapshot

\* The user presses Ctrl-C while main() runs. KeyboardInterrupt is no
\* Exception: nothing in the client catches it, the finally clause of
\* _sendCommandOnce closes the handle (client.py 95-99) and the frames of
\* getSnapshot are left. Inside the try block of the watch loop it is
\* caught (cli.py 199). Everywhere else it leaves main(): before the try
\* block is entered, without --watch (cli.py 204 is in no try block), and
\* while main() is on its way out through the with statement (`return 0` of
\* lines 197, 202 and 205, an exception of getSnapshot). A snapshot that
\* emitOnce holds is dropped: emitOnce does not return for it, its print
\* calls made so far stay made, and its signature stays remembered if line
\* 185 has run.
KeyboardInterrupt ==
    /\ cli.pc \in {"start", "emitOnce", "returned", "counted", "sleep",
                   "returning", "caught", "raising"} \cup HoldsSnapshot
    /\ cli' = [cli EXCEPT !.pc = IF InTryBlock(cli) THEN "caught" ELSE "interrupted",
                          !.last = IF cli.pc \in HoldsSnapshot
                                   THEN [cli.last EXCEPT !.kind = "dropped"]
                                   ELSE IF cli.last.kind = "dropped"
                                   THEN cli.last
                                   ELSE NoEmit]
    /\ IF pc = "idle"
       THEN UNCHANGED clientVars
       ELSE /\ CallLeft
            /\ openHandles' = IF HandleReleased(s.handleOpen)
                              THEN openHandles - 1 ELSE openHandles
    /\ UNCHANGED <<fnCall, fnResult>>

\* main() ends: `return 0` of cli.py 197 and 205 or of the handler (cli.py
\* 200-202, after "Stopped."), or the exception of getSnapshot, has passed
\* the with statement (client.py 24-26: __exit__ returns False).
MainEnds ==
    /\ cli.pc \in {"returning", "caught", "raising"}
    /\ cli' = [cli EXCEPT !.pc = CASE cli.pc = "returning" -> "exited"
                                   [] cli.pc = "caught" -> "stopped"
                                   [] cli.pc = "raising" -> "crashed"]
    /\ UNCHANGED <<clientVars, fnCall, fnResult>>

WatchNext ==
    \/ FirstEmitOnce
    \/ EmitOnceCall
    \/ EmitOnceReturn
    \/ EmitOnceDecides
    \/ PrintPart
    \/ EmitOncePrinted
    \/ AfterEmitOnce
    \/ CountChecked
    \/ WatchSleepEnds
    \/ KeyboardInterrupt
    \/ MainEnds
    \/ SnapBattery
    \/ SnapHeadset
    \/ SnapSidetoneActive
    \/ SnapSidetoneSaved
    \/ SnapReturn
    \/ BatteryCycle
    \/ BatteryExhausted
    \/ BatteryAfterQuery
    \/ GetterAfterQuery
    \/ QueryFindDevice(Enumerations)
    \/ QueryAttempt
    \/ QueryExhausted
    \/ QuerySucceeds
    \/ QueryAttemptFailed
    \/ SendNextLength
    \/ SendReturnNone
    \/ OpenPath
    \/ SetNonblocking
    \/ SendFeatureReport
    \/ GetFeatureReport
    \/ Write
    \/ Read
    \/ Close

WatchSpec == WatchInit /\ [][WatchNext]_vars

\* ------------------------------------------- the pure functions on their own

\* All sequences over `alphabet` of length at most n.
RECURSIVE SeqsUpTo(_, _)
SeqsUpTo(alphabet, n) ==
    IF n = 0 THEN {<<>>}
    ELSE LET shorter == SeqsUpTo(alphabet, n - 1)
         IN  shorter \cup {Append(t, b) : t \in shorter, b \in alphabet}

\* A request payload of n bytes (Sequence[int] with values 0..255).
PayloadOfLen(n) == [i \in 1..n |-> (37 * i + 11 * n) % 256]

\* Command ids, one of them wider than a byte.
CommandIdInputs == {0, CmdGetSliderValue, CmdGetBatteryStatus, 255, 256 + CmdGetBatteryStatus}

\* Optional request payloads: None and one payload of every length.
PayloadInputs == {None} \cup {Some(PayloadOfLen(n)) : n \in 0..MaxPayloadLen}

\* Response frames: every byte sequence over a few byte values.
FrameInputs == SeqsUpTo({0, 1, 2, 85, 255}, MaxFrameLen)

\* Payloads handed to the slider and noise-gate decoding.
DecodeInputs ==
    SeqsUpTo({CmdGetSliderValue, CmdGetNoiseGateMode, SliderSidetone, 50, 40},
             MaxDecodeLen)

\* Payloads handed to the battery and headset decoding: every status byte,
\* alone or followed by another byte, and the empty payload.
StatusInputs ==
    {<<>>} \cup {<<b>> : b \in 0..255} \cup {<<b, 255>> : b \in {0, 3, 100, 133}}

\* The frame a device sends when it echoes `payload` in a well-formed
\* status-ok frame laid out like a request frame (client.py 35-48 with the
\* status-ok code 0x02 in the command byte).
EchoFrame(payloadBytes, reportLen) == _buildRequestFrame(2, payloadBytes, reportLen)

\* client.py 111 on what client.py 83/91 returns for a raw response.
ParseResponse(raw) == _extractPayload(_normalizeResponseFrame(raw))

\* client.py 160-167 for a payload: getSliderValue's checks and decoding.
SliderValueOf(payloadBytes, sliderType, saved) ==
    DecodeSlider(payloadBytes, BitAnd(sliderType, 255), saved)

CodecCalls ==
    [fn : {"_buildRequestFrame"}, commandId : CommandIdInputs,
     payloadBytes : PayloadInputs, reportLength : {64, 65}]
    \cup [fn : {"roundTrip"}, payloadBytes : PayloadInputs, reportLength : {64, 65}]
    \cup [fn : {"_extractPayload"}, responseFrame : FrameInputs]
    \cup [fn : {"getSliderValue"}, payloadBytes : DecodeInputs,
          sliderType : SliderInputs, saved : BOOLEAN]
    \cup [fn : {"getNoiseGateMode"}, payloadBytes : DecodeInputs, saved : BOOLEAN]
    \cup [fn : {"getBatteryStatus"}, payloadBytes : StatusInputs]
    \cup [fn : {"getHeadsetStatus"}, payloadBytes : StatusInputs]

CodecInit ==
    /\ ClientInit
    /\ hist = NoHistory
    /\ fnCall \in CodecCalls
    /\ fnResult = NoOutcome
    /\ cli = CliIdle

\* The function named by fnCall, applied to fnCall's arguments, gives `result`.
Returned(fn, result) ==
    /\ fnCall.fn = fn
    /\ fnResult = NoOutcome
    /\ fnResult' = result
    /\ UNCHANGED <<fnCall, cli>>

\* The same, for a function that writes nothing of the client.
Apply(fn, result) ==
    /\ Returned(fn, result)
    /\ UNCHANGED clientVars

\* client.py 35-48
ApplyBuildRequestFrame ==
    Apply("_buildRequestFrame",
          Value(_buildRequestFrame(fnCall.commandId, fnCall.payloadBytes,
                                   fnCall.reportLength)))

\* client.py 50-67 on the device's echo of a payload
ApplyRoundTrip ==
    Apply("roundTrip",
          Value(ParseResponse(EchoFrame(fnCall.payloadBytes, fnCall.reportLength))))

\* client.py 55-67
ApplyExtractPayload ==
    Apply("_extractPayload", Value(_extractPayload(fnCall.responseFrame)))

\* client.py 160-167
ApplyGetSliderValue ==
    Apply("getSliderValue",
          SliderValueOf(fnCall.payloadBytes, fnCall.sliderType, fnCall.saved))

\* client.py 205-208
ApplyGetNoiseGateMode ==
    Apply("getNoiseGateMode", DecodeNoiseGate(fnCall.payloadBytes, fnCall.saved))

\* client.py 132-138: an accepted status is cached (line 137) and returned.
ApplyBatteryRead ==
    LET accepted == BatteryRead(fnCall.payloadBytes)
    IN  /\ Returned("getBatteryStatus", Value(accepted))
        /\ lastGoodBatteryStatus' = CacheAfterCycle(lastGoodBatteryStatus, accepted)
        /\ UNCHANGED <<pc, api, ret, snapVars, getterVars, queryVars, sendVars,
                       ioDone, enumFound>>

\* client.py 149-153
ApplyGetHeadsetStatus ==
    Apply("getHeadsetStatus", DecodeHeadset(fnCall.payloadBytes))

CodecNext ==
    \/ ApplyBuildRequestFrame
    \/ ApplyRoundTrip
    \/ ApplyExtractPayload
    \/ ApplyGetSliderValue
    \/ ApplyGetNoiseGateMode
    \/ ApplyBatteryRead
    \/ ApplyGetHeadsetStatus

CodecSpec == CodecInit /\ [][CodecNext]_vars

\* --------------------------------------------------------------- properties

\* A _query call is between its device lookup and its end.
QueryEnded == pc = "q_done"

\* C1: once an attempt of _query has given a structurally valid response,
\* no further _sendCommandOnce call is made (the attempts made are exactly
\* those up to and including the first valid one, which is one of the
\* `retries` allowed), and _query ends by returning exactly that payload.
C1_FirstValidAttemptEndsQuery ==
    /\ firstValidAt > 0 =>
          /\ sendCalls = firstValidAt
          /\ firstValidAt <= q.retries
    /\ (QueryEnded /\ firstValidAt > 0) =>
          /\ qOutcome.kind = "value"
          /\ qOutcome.value = firstValidPayload

\* C1 witness: a query with several retries whose attempts all failed but
\* the last one, which gave a valid frame, has returned its payload.
C1_Witness ==
    /\ QueryEnded
    /\ q.retries = QueryDefaultRetries
    /\ firstValidAt = q.retries
    /\ sendCalls = q.retries
    /\ qOutcome.kind = "value"
    /\ qOutcome.value = <<42>>

\* C2: a _query that resolved the device path and whose attempts gave no
\* present payload has made exactly `retries` attempts, raising ones
\* included, and ends with the communication error, whose cause is the
\* exception of the most recent raising attempt, or none.
C2_ExhaustionRaisesCommunicationError ==
    /\ (QueryEnded /\ ~IsNone(q.devicePath) /\ firstValidAt = 0) =>
          /\ sendCalls = q.retries
          /\ qOutcome.kind = "error"
          /\ qOutcome.error = "Communication"
          /\ qOutcome.cause = lastRaised
    /\ (pc = "q_loop") => q.lastError = lastRaised

\* C2 witness: all attempts of a default query failed, at least one by an
\* exception, and the communication error chains an exception.
C2_Witness ==
    /\ QueryEnded
    /\ q.retries = QueryDefaultRetries
    /\ sendCalls = QueryDefaultRetries
    /\ firstValidAt = 0
    /\ qOutcome.kind = "error"
    /\ qOutcome.error = "Communication"
    /\ qOutcome.cause = Some(OSError("set_nonblocking"))

\* A public call has ended and its result is with the caller.
CallEnded == pc = "done"

\* The public query calls: the typed getters and getSnapshot with a field.
PublicQueryCall ==
    \/ api \in Getters
    \/ api = "getSnapshot" /\ (snapReq.battery \/ snapReq.headset \/ snapReq.sidetone)

DeviceNotFoundBeforeIO ==
    /\ ret.kind = "error"
    /\ ret.error = "DeviceNotFound"
    /\ ~ioDone

\* C3 as stated: when no enumeration of the call holds the vendor id, every
\* public query call fails with the device-not-found error before any
\* transport operation.
C3_Original ==
    (CallEnded /\ PublicQueryCall /\ ~enumFound) => DeviceNotFoundBeforeIO

\* C3 amended: the same, for a getBatteryStatus call only when its retries
\* argument is at least 1 (with retries = 0 it makes no query at all).
C3_DeviceNotFoundBeforeIO ==
    (CallEnded /\ PublicQueryCall /\ ~enumFound
       /\ (api = "getBatteryStatus" => gArgs.retries >= 1))
    => DeviceNotFoundBeforeIO

\* C3 witness: a getSnapshot call asking for the sidetone only has failed
\* with the device-not-found error.
C3_Witness ==
    /\ CallEnded
    /\ api = "getSnapshot"
    /\ snapReq.sidetone /\ ~snapReq.battery /\ ~snapReq.headset
    /\ ~enumFound
    /\ ret.kind = "error"
    /\ ret.error = "DeviceNotFound"

\* A getBatteryStatus call (public, or made by getSnapshot) has ended.
BatteryCallEnded == getter = "getBatteryStatus" /\ gOutcome.kind # "none"

PercentInRange(batteryStatus) ==
    batteryStatus.chargePercent >= 0 /\ batteryStatus.chargePercent <= 100

\* C4: the cache is absent or holds a charge in [0,100], and every
\* BatteryStatus that getBatteryStatus returns (to the public caller or to
\* getSnapshot, which copies it into its mapping) has its charge in [0,100].
C4_ChargePercentInRange ==
    /\ IsNone(lastGoodBatteryStatus) \/ PercentInRange(TheValue(lastGoodBatteryStatus))
    /\ (BatteryCallEnded /\ gOutcome.kind = "value") => PercentInRange(gOutcome.value)
    /\ (CallEnded /\ api = "getBatteryStatus" /\ ret.kind = "value") =>
          PercentInRange(ret.value)
    /\ ("battery" \in DOMAIN snapshot) => PercentInRange(snapshot["battery"])

\* C4 witness: a getBatteryStatus call has returned a value after a cycle
\* whose value was rejected.
C4_Witness ==
    /\ CallEnded
    /\ api = "getBatteryStatus"
    /\ badCycles >= 1
    /\ batIter = badCycles + 1
    /\ ret.kind = "value"
    /\ ret.value = [isCharging |-> TRUE, chargePercent |-> 5]

\* C5: a getBatteryStatus call all of whose cycles ended with a rejected
\* value (out of range, or an empty payload) returns the cached value when
\* there is one and fails with the no-sane-value error when there is none;
\* it fails with that error only when there is no cache.
C5_FallbackToCache ==
    /\ (BatteryCallEnded /\ badCycles = gArgs.retries) =>
          IF IsNone(lastGoodBatteryStatus)
          THEN gOutcome.kind = "error" /\ gOutcome.error = "NoSaneBattery"
          ELSE gOutcome.kind = "value"
               /\ gOutcome.value = TheValue(lastGoodBatteryStatus)
    /\ (BatteryCallEnded /\ gOutcome.kind = "error"
          /\ gOutcome.error = "NoSaneBattery") => IsNone(lastGoodBatteryStatus)
    /\ (CallEnded /\ api = "getBatteryStatus") => ret = gOutcome

\* C5 witness: six rejected cycles, and the cached 42 % is returned.
C5_Witness ==
    /\ CallEnded
    /\ api = "getBatteryStatus"
    /\ gArgs.retries = BatteryDefaultRetries
    /\ badCycles = BatteryDefaultRetries
    /\ ret.kind = "value"
    /\ ret.value = [isCharging |-> FALSE, chargePercent |-> 42]

\* The last query of the getBatteryStatus call exhausted its retries.
BatteryQueryFailed ==
    /\ BatteryCallEnded
    /\ qOutcome.kind = "error"
    /\ qOutcome.error = "Communication"

\* C6 as stated: with a cached value, a getBatteryStatus call whose query
\* exhausts its retries returns the cached value.
C6_Original ==
    (BatteryQueryFailed /\ ~IsNone(lastGoodBatteryStatus)) =>
        /\ gOutcome.kind = "value"
        /\ gOutcome.value = TheValue(lastGoodBatteryStatus)

\* C6 amended: a getBatteryStatus call whose query fails raises that
\* query's error, cached value or not; the cached value is returned only
\* after every cycle's query returned a payload and every value was rejected.
C6_QueryFailureSurfaces ==
    /\ (BatteryCallEnded /\ qOutcome.kind = "error") => gOutcome = qOutcome
    /\ (BatteryCallEnded /\ gOutcome.kind = "value" /\ badCycles = batIter) =>
          /\ badCycles = gArgs.retries
          /\ qOutcome.kind # "error"
          /\ ~IsNone(lastGoodBatteryStatus)
          /\ gOutcome.value = TheValue(lastGoodBatteryStatus)

\* C6 witness: a value is cached, the query of a getBatteryStatus call has
\* exhausted its retries, and the call has raised the communication error.
C6_Witness ==
    /\ BatteryQueryFailed
    /\ CallEnded
    /\ api = "getBatteryStatus"
    /\ ~IsNone(lastGoodBatteryStatus)
    /\ ret.kind = "error"
    /\ ret.error = "Communication"

\* The positions inside the try block of _sendCommandOnce and its finally
\* clause, where the handle of the current report length may be open.
HandlePositions == {"s_nonblock", "s_sendfeat", "s_getfeat", "s_write", "s_read",
                    "s_close"}

\* C7: at most one handle is open; none is open when a handle is about to
\* be opened, when the loop moves on to the next report length, or when
\* _sendCommandOnce has been left, whichever way.
C7_AtMostOneHandleOpen ==
    /\ openHandles <= 1
    /\ openHandles = BoolInt(s.handleOpen)
    /\ (pc \notin HandlePositions) => openHandles = 0

\* C7 witness: _sendCommandOnce has been left by an exception raised while
\* the handle of the second report length was open, and no handle is open.
C7_Witness ==
    /\ pc = "q_after"
    /\ attemptOutcome.kind = "raise"
    /\ attemptOutcome.exc = OSError("set_nonblocking")
    /\ s.rlIdx = 2
    /\ openHandles = 0

\* The mechanism exercised i-th in an attempt that runs to its end: the
\* report lengths in the configured order and, for each, the feature
\* report before the interrupt transfer.
ExpectedMechanism(i) ==
    [reportLength |-> ReportLengths[(i + 1) \div 2],
     mechanism |-> IF i % 2 = 1 THEN "feature" ELSE "interrupt"]

AttemptLeft == pc = "q_after"

\* C8: the mechanisms an attempt exercises are an initial part of that
\* order; only the last one exercised can have given data, and then the
\* attempt returns that response, normalized, valid or not; an attempt
\* that reports no data has exercised every mechanism of every report length.
C8_MechanismOrder ==
    /\ Len(mechLog) <= 2 * Len(ReportLengths)
    /\ \A i \in 1..Len(mechLog) :
          /\ mechLog[i].reportLength = ExpectedMechanism(i).reportLength
          /\ mechLog[i].mechanism = ExpectedMechanism(i).mechanism
          /\ (i < Len(mechLog)) => mechLog[i].outcome = "nodata"
    /\ (AttemptLeft /\ attemptOutcome.kind = "frame") =>
          /\ Len(mechLog) >= 1
          /\ mechLog[Len(mechLog)].outcome = "data"
          /\ Len(mechLog[Len(mechLog)].raw) > 0
          /\ attemptOutcome.frame = _normalizeResponseFrame(mechLog[Len(mechLog)].raw)
    /\ (AttemptLeft /\ attemptOutcome.kind = "none") =>
          /\ Len(mechLog) = 2 * Len(ReportLengths)
          /\ mechLog[Len(mechLog)].outcome = "nodata"
    /\ (Len(mechLog) >= 1 /\ mechLog[Len(mechLog)].outcome = "data") =>
          pc \notin {"s_loop", "s_open", "s_nonblock", "s_sendfeat", "s_getfeat",
                     "s_write", "s_read"}

\* C8 witness: the attempt has returned a structurally invalid frame, which
\* the interrupt mechanism of the second report length gave after the three
\* mechanisms before it gave nothing.
C8_Witness ==
    /\ AttemptLeft
    /\ attemptOutcome.kind = "frame"
    /\ attemptOutcome.frame = <<2, 1, 1, 85>>
    /\ Len(mechLog) = 4
    /\ mechLog[4].reportLength = 65
    /\ mechLog[4].mechanism = "interrupt"

\* C9 as stated: no device I/O error escapes _sendCommandOnce.
C9_Original == ~(AttemptLeft /\ attemptOutcome.kind = "raise")

SetupOps == {"open_path", "set_nonblocking"}

\* C9 amended: an OSError of send_feature_report, get_feature_report, write
\* or read never leaves _sendCommandOnce, and an attempt that swallowed one
\* and reports no data has still exercised every mechanism of every report
\* length; an OSError of open_path or set_nonblocking does leave it, once
\* the handle is closed and without the remaining report lengths being
\* tried, and _query records it as its last error and loops on.
C9_MechanismErrorsSwallowed ==
    /\ (s.pending.kind = "raise") => s.pending.exc.op \in SetupOps
    /\ (AttemptLeft /\ attemptOutcome.kind = "raise") =>
          /\ attemptOutcome.exc.op \in SetupOps
          /\ ~s.handleOpen
          /\ Len(mechLog) = 2 * (s.rlIdx - 1)
          /\ lastRaised = Some(attemptOutcome.exc)
    /\ (pc = "s_close" /\ ~s.handleOpen) => s.pending = SetupErrorPending("open_path")
    /\ (pc = "s_close" /\ s.handleOpen /\ Len(mechLog) = 2 * (s.rlIdx - 1)) =>
          s.pending = SetupErrorPending("set_nonblocking")
    /\ (AttemptLeft /\ swallowed /\ attemptOutcome.kind = "none") =>
          Len(mechLog) = 2 * Len(ReportLengths)
    /\ (pc = "q_loop" /\ attemptOutcome.kind = "raise") =>
          q.lastError = Some(attemptOutcome.exc)

\* C9 witness: both mechanisms of the first report length were exercised,
\* an OSError among them swallowed, and then the OSError of opening the
\* handle for the second report length has left _sendCommandOnce.
C9_Witness ==
    /\ AttemptLeft
    /\ swallowed
    /\ Len(mechLog) = 2
    /\ attemptOutcome.kind = "raise"
    /\ attemptOutcome.exc = OSError("open_path")

\* The sub-queries getSnapshot makes for its arguments, in order.
RequestedCalls(req) ==
    (IF req.battery THEN <<"battery">> ELSE <<>>)
    \o (IF req.headset THEN <<"headset">> ELSE <<>>)
    \o (IF req.sidetone THEN <<"sidetoneActive", "sidetoneSaved">> ELSE <<>>)

\* The keys of the mapping getSnapshot returns for its arguments.
RequestedKeys(req) ==
    (IF req.battery THEN {"battery"} ELSE {})
    \cup (IF req.headset THEN {"headset"} ELSE {})
    \cup (IF req.sidetone THEN {"sidetone"} ELSE {})
    \cup (IF req.includeTimestamp THEN {"timestamp"} ELSE {})

IsPrefix(a, b) == Len(a) <= Len(b) /\ \A i \in 1..Len(a) : a[i] = b[i]

\* The getter call that getSnapshot makes at each stage.
StageCall(stage) ==
    CASE stage = "battery" ->
            [getter |-> "getBatteryStatus",
             args |-> [NoArgs EXCEPT !.retries = BatteryDefaultRetries]]
      [] stage = "headset" -> [getter |-> "getHeadsetStatus", args |-> NoArgs]
      [] stage = "sidetoneActive" ->
            [getter |-> "getSliderValue",
             args |-> [NoArgs EXCEPT !.sliderId = SliderSidetone]]
      [] stage = "sidetoneSaved" ->
            [getter |-> "getSliderValue",
             args |-> [NoArgs EXCEPT !.sliderId = SliderSidetone, !.saved = TRUE]]

\* C10: the sub-queries getSnapshot has issued are an initial part of the
\* requested ones in the order battery, headset, sidetone active, sidetone
\* saved; a sub-query that failed ended the call by that very error, with
\* no later sub-query and no mapping; a returned mapping has exactly the
\* requested keys, plus timestamp when asked, after all sub-queries.
C10_SnapshotAllOrNothing ==
    (api = "getSnapshot") =>
        /\ IsPrefix(subCalls, RequestedCalls(snapReq))
        /\ (snapStage # "none") =>
              /\ subCalls[Len(subCalls)] = snapStage
              /\ getter = StageCall(snapStage).getter
              /\ gArgs = StageCall(snapStage).args
        /\ (gOutcome.kind = "error") => (CallEnded /\ ret = gOutcome)
        /\ (CallEnded /\ ret.kind = "error") => ret = gOutcome
        /\ (CallEnded /\ ret.kind = "value") =>
              /\ subCalls = RequestedCalls(snapReq)
              /\ DOMAIN ret.value = RequestedKeys(snapReq)

\* C10 witness: everything was requested, the battery sub-query succeeded,
\* the headset sub-query failed, and the call has raised that error with no
\* sidetone sub-query issued.
C10_Witness ==
    /\ CallEnded
    /\ api = "getSnapshot"
    /\ snapReq.battery /\ snapReq.headset /\ snapReq.sidetone
    /\ snapReq.includeTimestamp
    /\ subCalls = <<"battery", "headset">>
    /\ ret.kind = "error"
    /\ ret.error = "UnexpectedPayload"

\* ------------------------------------------- properties of the pure functions

\* A function was applied on its own and has returned.
Applied(fn) == fnCall.fn = fn /\ fnResult.kind # "none"

\* The bytes of an Optional request payload (none for an absent one).
PayloadBytesOf(payloadBytes) ==
    IF IsNone(payloadBytes) THEN <<>> ELSE TheValue(payloadBytes)

\* The 64-byte request body the specification describes: marker, command
\* byte, length byte, payload, zero padding.
ExpectedBody(commandId, bytes) ==
    [i \in 1..64 |->
        IF i = 1 THEN 2
        ELSE IF i = 2 THEN commandId % 256
        ELSE IF i = 3 THEN Len(bytes) % 256
        ELSE IF i <= 3 + Len(bytes) THEN bytes[i - 3]
        ELSE 0]

\* C11: for every command id, every payload of 0..61 bytes and report
\* length 64 or 65, _buildRequestFrame returns a frame of exactly
\* reportLength bytes: for 64 the body [0x02, commandId & 0xFF, len & 0xFF,
\* payload, zero padding], for 65 one 0x00 byte followed by that same 64-byte
\* body; with no payload the length byte and every byte after it are zero.
C11_RequestFrameLayout ==
    (Applied("_buildRequestFrame") /\ Len(PayloadBytesOf(fnCall.payloadBytes)) <= 61) =>
        LET frame == fnResult.value
            bytes == PayloadBytesOf(fnCall.payloadBytes)
            body == ExpectedBody(fnCall.commandId, bytes)
        IN  /\ Len(frame) = fnCall.reportLength
            /\ fnCall.reportLength = 64 => frame = body
            /\ fnCall.reportLength = 65 => frame = <<0>> \o body
            /\ Len(bytes) = 0 =>
                  \A i \in 1..Len(frame) :
                      i >= Len(frame) - 61 => frame[i] = 0

\* C11 witness: a frame was built for report length 65 from a command id
\* wider than a byte and a payload of 61 bytes, which fills the body.
C11_Witness ==
    /\ Applied("_buildRequestFrame")
    /\ fnCall.reportLength = 65
    /\ fnCall.commandId > 255
    /\ Len(PayloadBytesOf(fnCall.payloadBytes)) = 61
    /\ Len(fnResult.value) = 65
    /\ fnResult.value[3] = CmdGetBatteryStatus
    /\ fnResult.value[65] = PayloadOfLen(61)[61]

\* C12: round trip. For every payload of 0..61 bytes and report length 64
\* or 65, parsing the device's well-formed status-ok echo of the payload
\* (normalize, then extract) gives back exactly the payload bytes.
C12_EchoRoundTrip ==
    (Applied("roundTrip") /\ Len(PayloadBytesOf(fnCall.payloadBytes)) <= 61) =>
        fnResult.value = Some(PayloadBytesOf(fnCall.payloadBytes))

\* C12 witness: a 61-byte payload echoed in a 65-byte frame (with the
\* report-id byte) was parsed back.
C12_Witness ==
    /\ Applied("roundTrip")
    /\ fnCall.reportLength = 65
    /\ fnCall.payloadBytes = Some(PayloadOfLen(61))
    /\ EchoFrame(fnCall.payloadBytes, 65)[1] = 0
    /\ fnResult.value = Some(PayloadOfLen(61))

\* C13: _extractPayload returns absent iff the frame has fewer than 3 bytes
\* or its marker or status byte is not 0x02; otherwise it returns
\* frame[3 : 3+n] with n = min(frame[2], len(frame) - 3), which never extends
\* past the end of the frame and is at most frame[2] bytes long.
C13_ExtractPayload ==
    Applied("_extractPayload") =>
        LET frame == fnCall.responseFrame
            result == fnResult.value
            invalid == Len(frame) < 3 \/ frame[1] # 2 \/ frame[2] # 2
            n == IF frame[3] <= Len(frame) - 3 THEN frame[3] ELSE Len(frame) - 3
        IN  /\ IsNone(result) <=> invalid
            /\ ~invalid =>
                  /\ TheValue(result) = SubSeq(frame, 4, 3 + n)
                  /\ 3 + Len(TheValue(result)) <= Len(frame)
                  /\ Len(TheValue(result)) <= frame[3]

\* C13 witness: a truncated frame, whose length byte promises more bytes
\* than it holds, gave the bytes it does hold.
C13_Witness ==
    /\ Applied("_extractPayload")
    /\ fnCall.responseFrame = <<2, 2, 255, 85>>
    /\ fnResult.value = Some(<<85>>)

\* C14: getSliderValue returns payload[2 + saved] when the payload has at
\* least 4 bytes, payload[0] is the slider command id and payload[1] the
\* requested slider id, and fails with the unexpected-payload error
\* otherwise; getNoiseGateMode returns payload[1 + saved] when the payload
\* has at least 3 bytes and payload[0] is the noise-gate command id, and
\* fails with the unexpected-payload error otherwise.
C14_SliderAndNoiseGateDecoding ==
    /\ Applied("getSliderValue") =>
          LET p == fnCall.payloadBytes
              wellFormed == /\ Len(p) >= 4
                            /\ p[1] = CmdGetSliderValue
                            /\ p[2] = fnCall.sliderType
          IN  IF wellFormed
              THEN fnResult = Value(IF fnCall.saved THEN p[4] ELSE p[3])
              ELSE fnResult = Error("UnexpectedPayload", None)
    /\ Applied("getNoiseGateMode") =>
          LET p == fnCall.payloadBytes
              wellFormed == Len(p) >= 3 /\ p[1] = CmdGetNoiseGateMode
          IN  IF wellFormed
              THEN fnResult = Value(IF fnCall.saved THEN p[3] ELSE p[2])
              ELSE fnResult = Error("UnexpectedPayload", None)

\* C14 witness: the sidetone payload [0x68, 0x05, 0x32, 0x28] read with
\* saved=true gave 40.
C14_Witness ==
    /\ Applied("getSliderValue")
    /\ fnCall.payloadBytes = <<CmdGetSliderValue, SliderSidetone, 50, 40>>
    /\ fnCall.sliderType = SliderSidetone
    /\ fnCall.saved
    /\ fnResult = Value(40)

\* C15: for every status byte b, an accepted battery read has
\* isCharging = (b & 0x80 # 0) and chargePercent = b & 0x7F, and a headset
\* read has isDocked = (b & 0x01 # 0) and isOn = (b & 0x02 # 0); a headset
\* payload of length 0 fails with the unexpected-payload error.
C15_StatusByteDecoding ==
    /\ (Applied("getBatteryStatus") /\ ~IsNone(fnResult.value)) =>
          LET b == fnCall.payloadBytes[1]
          IN  TheValue(fnResult.value) =
                  [isCharging |-> b >= 128, chargePercent |-> b % 128]
    /\ Applied("getHeadsetStatus") =>
          IF Len(fnCall.payloadBytes) = 0
          THEN fnResult = Error("UnexpectedPayload", None)
          ELSE LET b == fnCall.payloadBytes[1]
               IN  fnResult = Value([isDocked |-> b % 2 = 1,
                                     isOn |-> (b \div 2) % 2 = 1])

\* C15 witness: the battery byte 0x85 was accepted as charging at 5 %.
C15_Witness ==
    /\ Applied("getBatteryStatus")
    /\ fnCall.payloadBytes = <<133>>
    /\ fnResult.value = Some([isCharging |-> TRUE, chargePercent |-> 5])

\* ------------------------------------------------ properties of the sessions

\* An accepted battery status, decoded from the payload's first byte.
FreshlyDecoded(payloadBytes) ==
    [isCharging |-> payloadBytes[1] >= 128, chargePercent |-> payloadBytes[1] % 128]

\* C16: the cache changes only in getBatteryStatus, when its query has
\* returned, and only to the status freshly decoded from that payload, whose
\* charge is in [0,100] and which the call then returns; every other step
\* (of other getters, of a getBatteryStatus call that falls back or fails,
\* of a failing _query) leaves it unchanged, and a cache once set is never
\* absent again.
C16_CacheWrittenOnlyByAcceptedRead ==
    [][ /\ (lastGoodBatteryStatus' # lastGoodBatteryStatus) =>
              /\ getter = "getBatteryStatus"
              /\ pc = "q_done"
              /\ qOutcome.kind = "value"
              /\ Len(qOutcome.value) >= 1
              /\ lastGoodBatteryStatus' = Some(FreshlyDecoded(qOutcome.value))
              /\ PercentInRange(TheValue(lastGoodBatteryStatus'))
              /\ gOutcome' = Value(TheValue(lastGoodBatteryStatus'))
        /\ ~IsNone(lastGoodBatteryStatus) => ~IsNone(lastGoodBatteryStatus')
      ]_vars

\* C16 witness: a getBatteryStatus call whose first cycle was rejected has
\* accepted a later read, cached it and returned it.
C16_Witness ==
    /\ pc = "done"
    /\ api = "getBatteryStatus"
    /\ badCycles >= 1
    /\ badCycles < batIter
    /\ ret.kind = "value"
    /\ lastGoodBatteryStatus = Some(ret.value)

\* The positions of a _query call after its device lookup.
AfterLookup == {"q_loop", "q_after", "q_done", "s_loop", "s_open"} \cup HandlePositions

\* C17: a _query call enumerates the devices exactly once, before any
\* open_path call, and every open_path call of the call, whichever attempt
\* makes it, is given the path that enumeration resolved.
C17_PathResolvedOnce ==
    /\ pc = "q_find" => hist.enumerations = <<>> /\ hist.openCalls = 0
    /\ pc \in AfterLookup => Len(hist.enumerations) = 1
    /\ Len(hist.enumerations) <= 1
    /\ hist.openCalls > 0 =>
          /\ Len(hist.enumerations) = 1
          /\ ~IsNone(hist.enumerations[1])
          /\ hist.openedPaths = {TheValue(hist.enumerations[1])}

\* C17 witness: a query whose first three attempts failed, one of them by
\* raising, is in its fourth attempt with the path of its only enumeration.
C17_Witness ==
    /\ pc = "s_nonblock"
    /\ sendCalls = 4
    /\ ~IsNone(q.lastError)
    /\ hist.enumerations = <<Some("pathB")>>
    /\ hist.openedPaths = {"pathB"}
    /\ hist.openCalls >= 4

Backoffs(n) == [i \in 1..n |-> "backoff"]

\* The sleeps of _query's own body (client.py 113, 118), in order: the trace
\* without the settle sleeps of _sendCommandOnce.
QuerySleeps == SelectSeq(hist.sleeps, LAMBDA sleep : sleep # "settle")

\* C18: a _query call sleeps the inter-command delay exactly once when it
\* returns a payload, as its last sleep, and never when it fails; it sleeps
\* the fixed backoff once after every attempt that gave no present payload
\* (the last one included) and never after the successful attempt.
C18_DelayAndBackoff ==
    /\ pc \in {"s_loop", "s_open", "q_after"} \cup HandlePositions =>
          QuerySleeps = Backoffs(sendCalls - 1)
    /\ pc = "q_loop" => QuerySleeps = Backoffs(sendCalls)
    /\ pc = "q_find" => hist.sleeps = <<>>
    /\ (QueryEnded /\ qOutcome.kind = "value") =>
          /\ QuerySleeps = Append(Backoffs(sendCalls - 1), "commandDelay")
          /\ hist.sleeps[Len(hist.sleeps)] = "commandDelay"
    /\ (QueryEnded /\ qOutcome.kind = "error") =>
          QuerySleeps = Backoffs(sendCalls)

\* C18 witness: a query that succeeded at its third attempt, after an
\* attempt that raised and one that sent its feature reports in vain, slept
\* two backoffs and then the delay.
C18_Witness ==
    /\ QueryEnded
    /\ qOutcome.kind = "value"
    /\ sendCalls = 3
    /\ ~IsNone(q.lastError)
    /\ hist.sleeps = <<"backoff", "settle", "settle", "backoff", "settle",
                       "commandDelay">>

\* Mechanism exchanges made on the handle opened for report length rl.
ExchangesOn(rl) ==
    Cardinality({i \in 1..Len(mechLog) : mechLog[i].reportLength = rl})

\* The work of the calls in progress is within its bounds.
WorkBounded ==
    /\ sendCalls <= q.retries
    /\ hist.openCalls <= q.retries * Len(ReportLengths)
    /\ \A i \in 1..Len(ReportLengths) : ExchangesOn(ReportLengths[i]) <= 2
    /\ getter = "getBatteryStatus" =>
          /\ batIter <= gArgs.retries
          /\ gArgs.retries <= BatteryDefaultRetries

\* C19: provided every transport primitive returns or raises, every _query
\* call ends with a payload or an error and every getBatteryStatus call ends
\* with a status or an error, within bounded work: a _query call makes at
\* most `retries` attempts and retries * |reportLengths| open_path calls,
\* with at most 2 mechanism exchanges per handle, and a getBatteryStatus call
\* makes at most `retries` (6 by default) query cycles.
C19_TerminatesWithinBounds ==
    /\ []WorkBounded
    /\ (pc = "q_find") ~> (QueryEnded /\ qOutcome.kind \in {"value", "error"})
    /\ (api = "getBatteryStatus" /\ pc = "bat_loop") ~>
          (CallEnded /\ ret.kind \in {"value", "error"})

\* C19 witness: a getBatteryStatus call with the default retries has ended
\* after 6 cycles, the last of which opened 8 handles.
C19_Witness ==
    /\ CallEnded
    /\ api = "getBatteryStatus"
    /\ gArgs.retries = BatteryDefaultRetries
    /\ batIter = BatteryDefaultRetries
    /\ q.retries = QueryDefaultRetries
    /\ hist.openCalls = QueryDefaultRetries * Len(ReportLengths)

\* ---------------------------------------------- properties of the watch loop

\* The positions of main() after a KeyboardInterrupt.
Interrupted == {"caught", "stopped", "interrupted"}

ChangesOnly == cli.watch /\ cli.changesOnly

\* The snapshot of the last emitOnce call differs in content from the last
\* snapshot printed before it, or none was printed before it.
DiffersFromLastPrinted ==
    \/ IsNone(cli.last.before)
    \/ Content(cli.last.snapshot) # TheValue(cli.last.before)

\* The remembered signature is that of the last printed snapshot.
SignatureOfLastPrinted ==
    IF IsNone(cli.lastPrinted) THEN IsNone(cli.lastSignature)
    ELSE cli.lastSignature =
             Some(_stableSignatureForChangeDetection(TheValue(cli.lastPrinted)))

\* The loop counts the printed snapshots and no other; a snapshot printed
\* when Ctrl-C arrived may not have been counted.
PrintedAreCounted ==
    /\ (cli.watch /\ cli.pc \notin Interrupted) =>
          cli.printedCount = cli.emitted
              + (IF cli.pc = "returned" /\ cli.last.kind = "printed" THEN 1 ELSE 0)
    /\ (cli.watch /\ cli.pc \in Interrupted) =>
          cli.printedCount \in {cli.emitted, cli.emitted + 1}

\* With --count N > 0 the loop is left by `return 0` only when N snapshots
\* were counted, the last one just printed, and takes no snapshot after that.
ExitsAtCount ==
    (cli.watch /\ cli.count > 0) =>
        /\ cli.emitted <= cli.count
        /\ cli.pc \in {"returning", "exited"} =>
              cli.emitted = cli.count /\ cli.last.kind = "printed"
        /\ cli.emitted = cli.count =>
              cli.pc \in {"counted", "returning", "exited"} \cup Interrupted

\* Every print call of _printSnapshot for the snapshot of the last emitOnce
\* call has been made.
WhollyPrinted ==
    \/ cli.last.kind = "printed"
    \/ /\ cli.last.kind = "dropped"
       /\ cli.lastSignature =
              Some(_stableSignatureForChangeDetection(cli.last.snapshot))
       /\ cli.parts = PrintCalls(cli.format, cli.last.snapshot)

====
